---- MODULE Spec2Model ----
(***************************************************************************)
(* A model of the DOM polyfill of the notebook-kit controller              *)
(* (dom-polyfill.ts: enhanceElement, the global document install, the      *)
(* css-select adapter, DOMParser) and of the serializer's DOMParserEx      *)
(* (serializer.ts).                                                        *)
(*                                                                         *)
(* JS strings are sequences of one-character strings, so that String(),    *)
(* concatenation and the truthiness of "" are computed, not assumed.       *)
(* The underlying tree is @xmldom/xmldom: getAttribute of an absent        *)
(* attribute is null, setAttribute stores the value as a string, and a     *)
(* parsed document holds plain xmldom elements.  css-select queries the    *)
(* children of the root it is given, through the adapter it is given.      *)
(***************************************************************************)
EXTENDS Integers, Sequences, FiniteSets, TLC

\* ------------------------------------------------------------- bounds
\* Nodes a script may allocate besides the global document's own nodes.
MaxNodes == 4
\* Statements a script executes in one run.
MaxCalls == 4

\* The longest node list handed to removeSubsets.
MaxInput == 2

\* The most cells a notebook has, and the largest cell id.
MaxCells == 2

MaxCellId == 2

\* The most HtmlPreview instances made, the most events a run of the
\* preview has, and the most edits of one document.
MaxPreviews == 2

MaxEvents == 5

MaxEdits == 2

\* The transformers an array of customTransformers holds at most.
MaxTransformers == 1

\* The clicks on the button, the time that is followed (ms) and the
\* steps in which it passes (ms).
MaxClicks == 3

MaxTime == 3000

TickMs == 500

\* ---------------------------------------------------------- JS values
Null == [t |-> "null", s |-> <<>>, n |-> 0]

Undefined == [t |-> "undefined", s |-> <<>>, n |-> 0]

Str(s) == [t |-> "string", s |-> s, n |-> 0]

Num(n) == [t |-> "number", s |-> <<>>, n |-> n]

\* A reference to a node, as a JS value (always truthy).
Ref(i) == [t |-> "node", s |-> <<>>, n |-> i]

Empty == Str(<<>>)

Bool(b) == [t |-> "boolean", s |-> <<>>, n |-> IF b THEN 1 ELSE 0]

NaN == [t |-> "NaN", s |-> <<>>, n |-> 0]

\* value == null (true of null and of undefined)
IsNullish(v) == v.t \in {"null", "undefined"}

\* JS truthiness
Truthy(v) ==
    CASE v.t = "string" -> v.s # <<>>
      [] v.t = "number" -> v.n # 0
      [] v.t = "boolean" -> v.n # 0
      [] v.t = "node" -> TRUE
      [] OTHER -> FALSE

\* a || b
OrElse(a, b) == IF Truthy(a) THEN a ELSE b

\* a ?? b
Coalesce(a, b) == IF IsNullish(a) THEN b ELSE a

Digit(d) == <<"0", "1", "2", "3", "4", "5", "6", "7", "8", "9">>[d + 1]

RECURSIVE Decimal(_)
Decimal(k) == IF k < 10 THEN <<Digit(k)>> ELSE Decimal(k \div 10) \o <<Digit(k % 10)>>

\* String(value), a character sequence
String(v) ==
    CASE v.t = "string" -> v.s
      [] v.t = "number" -> Decimal(v.n)
      [] v.t = "null" -> <<"n", "u", "l", "l">>
      [] v.t = "undefined" -> <<"u", "n", "d", "e", "f", "i", "n", "e", "d">>
      [] OTHER -> <<"[", "o", "b", "j", "e", "c", "t", "]">>

\* parseInt(value): the number the leading decimal digits of String(value)
\* spell, NaN when there is none
parseInt(v) ==
    LET cs == String(v)
        isDigit(c) == c \in {"0", "1", "2", "3", "4", "5", "6", "7", "8", "9"}
        digitOf(c) == CHOOSE d \in 0..9 : Digit(d) = c
        run[k \in 0..Len(cs)] ==
            IF k = 0 THEN 0
            ELSE IF run[k - 1] = k - 1 /\ isDigit(cs[k]) THEN k ELSE run[k - 1]
        val[k \in 0..Len(cs)] ==
            IF k = 0 THEN 0
            ELSE IF isDigit(cs[k]) THEN val[k - 1] * 10 + digitOf(cs[k]) ELSE val[k - 1]
    IN  IF run[Len(cs)] = 0 THEN NaN ELSE Num(val[run[Len(cs)]])

\* --------------------------------------------------------------- nodes
ELEMENT_NODE == 1

TEXT_NODE == 3

\* The global document and the nodes createHTMLDocument gives it.
document == 1

htmlElement == 2

headElement == 3

bodyElement == 4

NodeIds == 1..(bodyElement + MaxNodes)

\* Ids a script can allocate.
Pool == (bodyElement + 1)..(bodyElement + MaxNodes)

AttrNames == {"id", "type"}

NoAttr == [has |-> FALSE, val |-> <<>>]

\* An unallocated slot.
FreeNode ==
    [nodeType |-> 0, nodeName |-> "", attrs |-> [a \in AttrNames |-> NoAttr],
     childNodes |-> <<>>, parentNode |-> 0, nodeValue |-> Null,
     ownerDocument |-> 0, sync |-> {}, shimText |-> FALSE,
     own |-> [p \in AttrNames |-> Undefined]]

\* A fresh xmldom element of a document, not yet enhanced.
NewElement(doc, name) ==
    [FreeNode EXCEPT !.nodeType = ELEMENT_NODE, !.nodeName = name, !.ownerDocument = doc]

\* A fresh xmldom text node made from the JS value data: xmldom's
\* createTextNode appends data to the empty string (appendData: "" + data).
NewText(doc, data) ==
    [FreeNode EXCEPT !.nodeType = TEXT_NODE, !.nodeName = "#text",
                     !.nodeValue = Str(String(data)), !.ownerDocument = doc]

NewDocument ==
    [FreeNode EXCEPT !.nodeType = 9, !.nodeName = "#document"]

toLowerCase(name) ==
    CASE name = "SCRIPT" -> "script"
      [] name = "DIV" -> "div"
      [] OTHER -> name

VARIABLES
    currentPanel,     \* HtmlPreview.currentPanel: an instance, or 0 (undefined)
    previews,         \* the HtmlPreview instances made so far, with their panels
    timers,           \* the timeouts that are pending
    documents,        \* the text documents: how often each was edited
    activeTextEditor, \* the document of vscode.window.activeTextEditor
    lastOp,           \* what the last event did to the panels
    optionsCopy,      \* the object getTranspilerOptions returned last
    consoleButton,    \* textContent of SimplePreview's 'Log to Console' button
    feedback,         \* the pending timeouts of its clicks, oldest first
    clock,            \* the time, in ms
    notebook,   \* the Observable notebook read from the file
    notebookData, \* the vscode.NotebookData made from it
    saved,      \* the Observable notebook written back
    globalThis, \* what globalThis.document is and whose its methods are
    nodes,      \* the node store: id -> node
    lastCall,   \* the statement executed last, with its arguments
    calls,      \* statements executed so far
    parsed,     \* the document parseFromString returned, and the parser used
    result      \* what the last selector query returned to its caller

kitVars == <<notebook, notebookData, saved>>

previewVars ==
    <<currentPanel, previews, timers, documents, activeTextEditor, lastOp, optionsCopy>>

buttonVars == <<consoleButton, feedback, clock>>

vars ==
    <<globalThis, nodes, lastCall, calls, parsed, result, kitVars, previewVars, buttonVars>>

\* ------------------------------------------------- xmldom's Element API
\* elem.getAttribute(name): the value, or null when absent
getAttribute(N, e, name) ==
    IF N[e].attrs[name].has THEN Str(N[e].attrs[name].val) ELSE Null

hasAttribute(N, e, name) == N[e].attrs[name].has

\* elem.setAttribute(name, value), value a string
setAttribute(N, e, name, chars) ==
    [N EXCEPT ![e].attrs[name] = [has |-> TRUE, val |-> chars]]

removeAttribute(N, e, name) == [N EXCEPT ![e].attrs[name] = NoAttr]

RemoveAt(seq, i) == SubSeq(seq, 1, i - 1) \o SubSeq(seq, i + 1, Len(seq))

IndexOf(seq, x) == CHOOSE i \in 1..Len(seq) : seq[i] = x

\* parent.removeChild(child)
removeChild(N, p, c) ==
    [N EXCEPT ![p].childNodes = RemoveAt(@, IndexOf(@, c)), ![c].parentNode = 0]

\* parent.appendChild(child): the child leaves its old parent first
appendChild(N, p, c) ==
    LET N1 == IF N[c].parentNode # 0 THEN removeChild(N, N[c].parentNode, c) ELSE N
    IN  [N1 EXCEPT ![p].childNodes = Append(@, c), ![c].parentNode = p]

RECURSIVE Ancestors(_, _)
Ancestors(N, i) ==
    IF N[i].parentNode = 0 THEN {} ELSE {N[i].parentNode} \cup Ancestors(N, N[i].parentNode)

FreeIds(N) == {i \in Pool : N[i].nodeType = 0}

\* The slot the next allocation takes.
NextId(N) == CHOOSE i \in FreeIds(N) : \A j \in FreeIds(N) : i <= j

\* ------------------------------------------------------ enhanceElement
\* As syncProperties, comparing the tag name without lower-casing it.
syncPropertiesCaseSensitive(tagName) == {"id"} \cup (IF tagName = "script" THEN {"type"} ELSE {})

\* The properties enhanceElement keeps in step with the attributes.
syncProperties(tagName) ==
    {"id"} \cup (IF toLowerCase(tagName) = "script" THEN {"type"} ELSE {})

\* enhanceElement(element, tagName): define the synced properties, and the
\* textContent accessor when the element has no truthy textContent and no
\* own descriptor for it (true of every new xmldom element)
enhanceElement(N, e, tagName) ==
    [N EXCEPT ![e].sync = syncProperties(tagName), ![e].shimText = TRUE]

\* The members an element answers to: xmldom's own (it has no selector
\* queries), and on an element enhanceElement was applied to the synced
\* properties, textContent, innerHTML and outerHTML.
elementMembers(N, e) ==
    {"getAttribute", "setAttribute", "removeAttribute", "hasAttribute", "appendChild",
     "removeChild", "getElementsByTagName", "childNodes", "parentNode", "toString"}
        \cup N[e].sync
        \cup (IF N[e].shimText THEN {"textContent"} ELSE {})
        \cup (IF N[e].sync # {} THEN {"innerHTML", "outerHTML"} ELSE {})

\* get: this.getAttribute(prop) || ""
syncGet(N, e, prop) == OrElse(getAttribute(N, e, prop), Empty)

\* As syncSet, testing the value's truthiness instead of value != null.
syncSetTruthy(N, e, prop, value) ==
    IF Truthy(value) THEN setAttribute(N, e, prop, String(value))
    ELSE removeAttribute(N, e, prop)

\* As syncSet, testing value !== null and leaving the attribute on null.
syncSetNoRemove(N, e, prop, value) ==
    IF value.t # "null" THEN setAttribute(N, e, prop, String(value)) ELSE N

\* set: value != null ? setAttribute(prop, String(value)) : removeAttribute(prop)
syncSet(N, e, prop, value) ==
    IF ~IsNullish(value) THEN setAttribute(N, e, prop, String(value))
    ELSE removeAttribute(N, e, prop)

\* Reading element.prop: the accessor when enhanceElement defined one,
\* otherwise the element's own plain property (undefined until assigned).
PropGet(N, e, prop) ==
    IF prop \in N[e].sync THEN syncGet(N, e, prop) ELSE N[e].own[prop]

\* element.prop = value
PropSet(N, e, prop, value) ==
    IF prop \in N[e].sync THEN syncSet(N, e, prop, value)
    ELSE [N EXCEPT ![e].own[prop] = value]

\* ------------------------------------------------- the global document
\* As createTextNode, with data handed to the original as it came.
createTextNodeAsGiven(N, data) ==
    [N EXCEPT ![NextId(N)] = NewText(document, data)]

\* document.createTextNode(data): origCreateTextNode.call(this, data || "")
createTextNode(N, data) ==
    [N EXCEPT ![NextId(N)] = NewText(document, OrElse(data, Empty))]

\* document.createElement(name): the original, then enhanceElement
createElement(N, name) ==
    enhanceElement([N EXCEPT ![NextId(N)] = NewElement(document, name)], NextId(N), name)

\* globalThis.document = new DOMImplementation().createHTMLDocument()
InstalledDocument ==
    [i \in NodeIds |->
        CASE i = document ->
                [NewDocument EXCEPT !.childNodes = <<htmlElement>>, !.ownerDocument = 0]
          [] i = htmlElement ->
                [NewElement(document, "html") EXCEPT
                    !.childNodes = <<headElement, bodyElement>>, !.parentNode = document]
          [] i = headElement ->
                [NewElement(document, "head") EXCEPT !.parentNode = htmlElement]
          [] i = bodyElement ->
                [NewElement(document, "body") EXCEPT !.parentNode = htmlElement]
          [] OTHER -> FreeNode]

\* No global document: the state in which the polyfill installs its own.
NoDocument ==
    [document |-> "none", createElement |-> "none", createTextNode |-> "none",
     querySelector |-> "none", querySelectorAll |-> "none"]

\* A document the host provides (a browser, jsdom), with its own methods,
\* and one that has no selector queries.
HostDocument ==
    [document |-> "host", createElement |-> "host", createTextNode |-> "host",
     querySelector |-> "host", querySelectorAll |-> "host"]

BareHostDocument ==
    [HostDocument EXCEPT !.querySelector = "none", !.querySelectorAll = "none"]

\* The polyfill's document, with the methods the install assigns.
PolyfillDocument ==
    [document |-> "xmldom", createElement |-> "enhanced", createTextNode |-> "guarded",
     querySelector |-> "polyfill", querySelectorAll |-> "polyfill"]

\* As install, without the test for an existing document.
installAlways(g, N) == [globalThis |-> PolyfillDocument, nodes |-> InstalledDocument]

\* if (!globalThis.document) { globalThis.document = ...; document.createElement
\* = ...; document.createTextNode = ...; document.querySelector = ...;
\* document.querySelectorAll = ... }
install(g, N) ==
    IF g.document = "none"
    THEN [globalThis |-> PolyfillDocument, nodes |-> InstalledDocument]
    ELSE [globalThis |-> g, nodes |-> N]

\* --------------------------------------------------------- textContent
RECURSIVE textContent(_, _)
\* get: the text children's values and the element children's textContent,
\* in child order (xmldom's own getter on a plain element gives the same)
textContent(N, e) ==
    LET piece(c) ==
            IF N[c].nodeType = TEXT_NODE THEN String(OrElse(N[c].nodeValue, Empty))
            ELSE IF N[c].nodeType = ELEMENT_NODE THEN textContent(N, c)
            ELSE <<>>
        cat[k \in 0..Len(N[e].childNodes)] ==
            IF k = 0 THEN <<>> ELSE cat[k - 1] \o piece(N[e].childNodes[k])
    IN  cat[Len(N[e].childNodes)]

RECURSIVE removeAllChildren(_, _)
\* while (this.firstChild) this.removeChild(this.firstChild)
removeAllChildren(N, e) ==
    IF N[e].childNodes = <<>> THEN N
    ELSE removeAllChildren(removeChild(N, e, Head(N[e].childNodes)), e)

\* As textContentSet, without clearing the children first.
textContentSetKeep(N, e, value) ==
    IF ~IsNullish(value)
    THEN appendChild(createTextNode(N, Str(String(value))), e, NextId(N))
    ELSE N

\* set: clear the children, then append one text node unless value == null
textContentSet(N, e, value) ==
    LET N1 == removeAllChildren(N, e)
    IN  IF ~IsNullish(value)
        THEN appendChild(createTextNode(N1, Str(String(value))), e, NextId(N1))
        ELSE N1

\* ----------------------------------------------------------- innerHTML
\* text.replace(/x/g, rep): every occurrence of the character x becomes rep
replaceAll(text, x, rep) ==
    LET out[k \in 0..Len(text)] ==
            IF k = 0 THEN <<>>
            ELSE out[k - 1] \o (IF text[k] = x THEN rep ELSE <<text[k]>>)
    IN  out[Len(text)]

amp == <<"&", "a", "m", "p", ";">>
lt == <<"&", "l", "t", ";">>
gt == <<"&", "g", "t", ";">>

\* As escapeText, with & replaced last, so that the & of &lt; and &gt; is
\* escaped again.
escapeTextAmpLast(text) ==
    replaceAll(replaceAll(replaceAll(text, "<", lt), ">", gt), "&", amp)

\* text.replace(/&/g, "&amp;").replace(/</g, "&lt;").replace(/>/g, "&gt;")
escapeText(text) ==
    replaceAll(replaceAll(replaceAll(text, "&", amp), "<", lt), ">", gt)

RECURSIVE toString(_, _)
\* child.toString(), xmldom's serialization of an element: the start tag
\* with the attributes, the children, the end tag. The tag and attribute
\* names are written as one token each; xmldom escapes &, < and > in text
\* and &, < and " in attribute values.
toString(N, e) ==
    LET attr(a) ==
            IF N[e].attrs[a].has
            THEN <<" ", a, "=", "\"">>
                    \o replaceAll(replaceAll(replaceAll(N[e].attrs[a].val, "&", amp),
                                              "<", lt), "\"", <<"&", "q", "u", "o", "t", ";">>)
                    \o <<"\"">>
            ELSE <<>>
        piece(c) ==
            IF N[c].nodeType = ELEMENT_NODE THEN toString(N, c)
            ELSE IF N[c].nodeType = TEXT_NODE THEN escapeText(String(N[c].nodeValue))
            ELSE <<>>
        inner[k \in 0..Len(N[e].childNodes)] ==
            IF k = 0 THEN <<>> ELSE inner[k - 1] \o piece(N[e].childNodes[k])
    IN  <<"<", N[e].nodeName>> \o attr("id") \o attr("type") \o <<">">>
            \o inner[Len(N[e].childNodes)] \o <<"</", N[e].nodeName, ">">>

\* get innerHTML: the element children's toString() and the text
\* children's escaped values, in child order
innerHTML(N, e) ==
    LET piece(c) ==
            IF N[c].nodeType = ELEMENT_NODE THEN toString(N, c)
            ELSE IF N[c].nodeType = TEXT_NODE
                 THEN escapeText(String(OrElse(N[c].nodeValue, Empty)))
            ELSE <<>>
        html[k \in 0..Len(N[e].childNodes)] ==
            IF k = 0 THEN <<>> ELSE html[k - 1] \o piece(N[e].childNodes[k])
    IN  html[Len(N[e].childNodes)]

\* get outerHTML: this.toString()
outerHTML(N, e) == toString(N, e)

\* ------------------------------------------------- the css adapters
\* Two adapters exist: "polyfill" is xmldomAdapter of dom-polyfill.ts,
\* "serializer" is xmldomAdapter of serializer.ts.
isTag(N, n) == N[n].nodeType = ELEMENT_NODE

ElementChildren(N, n) ==
    LET isElem(c) == N[c].nodeType = ELEMENT_NODE
    IN  SelectSeq(N[n].childNodes, isElem)

\* dom-polyfill.ts: null becomes undefined, every string is returned
polyfillGetAttributeValue(N, e, name) ==
    IF N[e].nodeType # ELEMENT_NODE THEN Undefined
    ELSE IF getAttribute(N, e, name) = Null THEN Undefined
    ELSE getAttribute(N, e, name)

\* serializer.ts: elem.getAttribute(name) || undefined
serializerGetAttributeValue(N, e, name) == OrElse(getAttribute(N, e, name), Undefined)

getAttributeValue(ad, N, e, name) ==
    IF ad = "serializer" THEN serializerGetAttributeValue(N, e, name)
    ELSE polyfillGetAttributeValue(N, e, name)

\* dom-polyfill.ts: the element children only
polyfillGetChildren(N, n) == ElementChildren(N, n)

\* serializer.ts: Array.from(node.childNodes || [])
serializerGetChildren(N, n) == N[n].childNodes

getChildren(ad, N, n) ==
    IF ad = "serializer" THEN serializerGetChildren(N, n) ELSE polyfillGetChildren(N, n)

getName(N, e) == toLowerCase(N[e].nodeName)

getParent(N, n) == N[n].parentNode

polyfillGetSiblings(N, n) ==
    IF N[n].parentNode = 0 THEN <<n>> ELSE ElementChildren(N, N[n].parentNode)

serializerGetSiblings(N, n) ==
    IF N[n].parentNode = 0 THEN <<n>> ELSE N[N[n].parentNode].childNodes

getSiblings(ad, N, n) ==
    IF ad = "serializer" THEN serializerGetSiblings(N, n) ELSE polyfillGetSiblings(N, n)

\* node.textContent of an xmldom node: a text node's data, an element's
\* derived text, null on a document
nodeTextContent(N, n) ==
    IF N[n].nodeType = TEXT_NODE THEN Str(String(N[n].nodeValue))
    ELSE IF N[n].nodeType = ELEMENT_NODE THEN Str(textContent(N, n))
    ELSE Null

\* The values of the direct text children, concatenated.
directText(N, n) ==
    LET kids == N[n].childNodes
        cat[k \in 0..Len(kids)] ==
            IF k = 0 THEN <<>>
            ELSE IF N[kids[k]].nodeType = TEXT_NODE
            THEN cat[k - 1] \o String(OrElse(N[kids[k]].nodeValue, Empty))
            ELSE cat[k - 1]
    IN  cat[Len(kids)]

\* dom-polyfill.ts: textContent when it is a string, a text node's value,
\* otherwise the direct text children
polyfillGetText(N, n) ==
    IF nodeTextContent(N, n).t = "string" THEN nodeTextContent(N, n)
    ELSE IF N[n].nodeType = TEXT_NODE THEN OrElse(N[n].nodeValue, Empty)
    ELSE Str(directText(N, n))

\* serializer.ts: node.textContent || ""
serializerGetText(N, n) == OrElse(nodeTextContent(N, n), Empty)

getText(ad, N, n) ==
    IF ad = "serializer" THEN serializerGetText(N, n) ELSE polyfillGetText(N, n)

\* dom-polyfill.ts: false when elem has no hasAttribute method
polyfillHasAttrib(N, e, name) == N[e].nodeType = ELEMENT_NODE /\ hasAttribute(N, e, name)

\* serializer.ts: elem.hasAttribute(name), elem an element
serializerHasAttrib(N, e, name) == hasAttribute(N, e, name)

hasAttrib(ad, N, e, name) ==
    IF ad = "serializer" THEN serializerHasAttrib(N, e, name)
    ELSE polyfillHasAttrib(N, e, name)

\* other.contains(node): node is other or a descendant of other
contains(N, other, n) == other = n \/ other \in Ancestors(N, n)

\* keep the nodes that no other entry of the input contains
removeSubsets(N, seq) ==
    LET keep(i) == ~\E j \in 1..Len(seq) : i # j /\ contains(N, seq[j], seq[i])
        kept[k \in 0..Len(seq)] ==
            IF k = 0 THEN <<>>
            ELSE IF keep(k) THEN Append(kept[k - 1], seq[k]) ELSE kept[k - 1]
    IN  kept[Len(seq)]

\* ----------------------------------------------------------- css-select
\* A selector: [valid, tag, attr, op, value]; tag "" is any tag, op is
\* "none", "exists" ([attr]) or "equals" ([attr="value"]).
Selector(tag, attr, op, value) ==
    [valid |-> TRUE, tag |-> tag, attr |-> attr, op |-> op, value |-> value]

\* An unterminated bracket, "[": css-what throws on it.
InvalidSelector == [valid |-> FALSE, tag |-> "", attr |-> "id", op |-> "none", value |-> <<>>]

Observable == <<"o", "b", "s", "e", "r", "v", "a", "b", "l", "e">>

\* The compiled test, which reads an element through the adapter.
test(ad, N, sel, e) ==
    /\ sel.tag = "" \/ getName(N, e) = sel.tag
    /\ CASE sel.op = "exists" -> hasAttrib(ad, N, e, sel.attr)
         [] sel.op = "equals" -> getAttributeValue(ad, N, e, sel.attr) = Str(sel.value)
         [] OTHER -> TRUE

RECURSIVE findAll(_, _, _, _)
\* The elements of seq and their descendants that pass the test, in
\* pre-order; descendants are reached through adapter.getChildren.
findAll(ad, N, sel, seq) ==
    IF seq = <<>> THEN <<>>
    ELSE LET n == Head(seq)
         IN  (IF isTag(N, n)
              THEN (IF test(ad, N, sel, n) THEN <<n>> ELSE <<>>)
                   \o findAll(ad, N, sel, getChildren(ad, N, n))
              ELSE <<>>)
             \o findAll(ad, N, sel, Tail(seq))

\* selectAll(selector, root, {adapter}): the children of root are queried.
\* [threw, list]
selectAll(ad, N, sel, root) ==
    IF ~sel.valid THEN [threw |-> TRUE, list |-> <<>>]
    ELSE [threw |-> FALSE, list |-> findAll(ad, N, sel, getChildren(ad, N, root))]

\* selectOne(selector, root, {adapter}): the first of them, or null. [threw, value]
selectOne(ad, N, sel, root) ==
    LET all == selectAll(ad, N, sel, root)
    IN  [threw |-> all.threw,
         value |-> IF all.threw \/ all.list = <<>> THEN Null ELSE Ref(Head(all.list))]

\* ------------------------------------------------------- query results
\* What a query call gave its caller: threw (an exception left the call),
\* value (querySelector), list with the methods it carries
\* (querySelectorAll), and the diagnostics the call logged.
NoResult ==
    [call |-> "none", entry |-> "", target |-> 0, sel |-> InvalidSelector,
     threw |-> FALSE, value |-> Undefined, list |-> <<>>,
     item |-> "missing", forEach |-> "missing", logged |-> 0, input |-> <<>>]

\* try { selectOne(...) || null } catch { console.error(...); null }
tryQuerySelector(ad, N, sel, root) ==
    LET r == selectOne(ad, N, sel, root)
    IN  IF r.threw THEN [NoResult EXCEPT !.value = Null, !.logged = 1]
        ELSE [NoResult EXCEPT !.value = OrElse(r.value, Null)]

\* try { Object.assign(results, {item, forEach}) } catch { log; empty list
\* with item: () => null and forEach: () => {} }
tryQuerySelectorAll(ad, N, sel, root) ==
    LET r == selectAll(ad, N, sel, root)
    IN  IF r.threw
        THEN [NoResult EXCEPT !.list = <<>>, !.item = "null", !.forEach = "noop",
                              !.logged = 1]
        ELSE [NoResult EXCEPT !.list = r.list, !.item = "results", !.forEach = "loop"]

\* doc.documentElement || doc
rootElement(N, doc) ==
    IF ElementChildren(N, doc) # <<>> THEN Head(ElementChildren(N, doc)) ELSE doc

\* document.querySelector(selector): selectOne(selector, this, ...)
documentQuerySelector(N, sel) == tryQuerySelector("polyfill", N, sel, document)

\* document.querySelectorAll(selector)
documentQuerySelectorAll(N, sel) == tryQuerySelectorAll("polyfill", N, sel, document)

\* DOMParser.parseFromString: doc.querySelector
parserQuerySelector(N, doc, sel) ==
    tryQuerySelector("polyfill", N, sel, rootElement(N, doc))

\* DOMParser.parseFromString: doc.querySelectorAll
parserQuerySelectorAll(N, doc, sel) ==
    tryQuerySelectorAll("polyfill", N, sel, rootElement(N, doc))

\* DOMParserEx.parseFromString: doc["querySelector"]
parserExQuerySelector(N, doc, sel) ==
    tryQuerySelector("serializer", N, sel, rootElement(N, doc))

\* DOMParserEx.parseFromString: doc["querySelectorAll"] returns the plain
\* array of selectAll, or [] on an error: an array has forEach, and no item
parserExQuerySelectorAll(N, doc, sel) ==
    LET r == selectAll("serializer", N, sel, rootElement(N, doc))
    IN  IF r.threw
        THEN [NoResult EXCEPT !.list = <<>>, !.forEach = "native", !.logged = 1]
        ELSE [NoResult EXCEPT !.list = r.list, !.forEach = "native"]

\* list.item(i), i counted from 0: results[index] || null; a call of a
\* method the list does not have throws a TypeError
TypeError == [t |-> "TypeError", s |-> <<>>, n |-> 0]

item(r, i) ==
    CASE r.item = "results" -> IF i + 1 \in 1..Len(r.list) THEN Ref(r.list[i + 1]) ELSE Null
      [] r.item = "null" -> Null
      [] OTHER -> TypeError

\* list[i]
indexed(r, i) == IF i + 1 \in 1..Len(r.list) THEN Ref(r.list[i + 1]) ELSE Undefined

\* The (value, index) pairs list.forEach hands to its callback, in order.
forEachCalls(r) ==
    IF r.forEach \in {"loop", "native"} THEN [k \in 1..Len(r.list) |-> <<Ref(r.list[k]), k - 1>>]
    ELSE <<>>

\* ------------------------------------------------------ parseFromString
\* The markup inputs, and the tree xmldom builds for each: the nodes in
\* document order, each with the position of its parent (0: the document).
\*   "example": <div id="x"><script type="observable">1+1</script></div>
\*   "twins":   <div><script id=""></script><script id="x"></script></div>
\*   "nested":  <div id="x"><div id=""><script></script></div></div>
Markups == {"example", "twins", "nested"}

El(name, parent, id, type) ==
    [nodeType |-> ELEMENT_NODE, nodeName |-> name, parent |-> parent,
     attrs |-> [a \in AttrNames |-> IF a = "id" THEN id ELSE type], data |-> <<>>]

Tx(parent, data) ==
    [nodeType |-> TEXT_NODE, nodeName |-> "#text", parent |-> parent,
     attrs |-> [a \in AttrNames |-> NoAttr], data |-> data]

Attr(chars) == [has |-> TRUE, val |-> chars]

ParsedTree(markup) ==
    CASE markup = "example" ->
            <<El("div", 0, Attr(<<"x">>), NoAttr),
              El("script", 1, NoAttr, Attr(Observable)),
              Tx(2, <<"1", "+", "1">>)>>
      [] markup = "twins" ->
            <<El("div", 0, NoAttr, NoAttr),
              El("script", 1, Attr(<<>>), NoAttr),
              El("script", 1, Attr(<<"x">>), NoAttr)>>
      [] OTHER ->
            <<El("div", 0, Attr(<<"x">>), NoAttr),
              El("div", 1, Attr(<<>>), NoAttr),
              El("script", 2, NoAttr, NoAttr)>>

\* super.parseFromString(data, contentType): a new document whose nodes are
\* plain xmldom nodes; enhanceElement is not applied to them
parseFromString(N, markup) ==
    LET T == ParsedTree(markup)
        base == NextId(N)
        kids(k) == LET under(j) == T[j].parent = k
                       idx == SelectSeq([j \in 1..Len(T) |-> j], under)
                   IN  [m \in 1..Len(idx) |-> base + idx[m]]
    IN  [i \in NodeIds |->
            IF i = base THEN [NewDocument EXCEPT !.childNodes = kids(0)]
            ELSE IF i - base \in 1..Len(T)
            THEN [FreeNode EXCEPT
                    !.nodeType = T[i - base].nodeType,
                    !.nodeName = T[i - base].nodeName,
                    !.attrs = T[i - base].attrs,
                    !.nodeValue = IF T[i - base].nodeType = TEXT_NODE
                                  THEN Str(T[i - base].data) ELSE Null,
                    !.parentNode = base + T[i - base].parent,
                    !.ownerDocument = base,
                    !.childNodes = kids(i - base)]
            ELSE N[i]]

NotParsed == [doc |-> 0, parser |-> "none", markup |-> ""]

\* ------------------------------------------------------------- inputs
TagNames == {"div", "SCRIPT"}

AttrValues == {<<>>, <<"x">>}

PropValues == {Null, Undefined, Empty, Str(<<"x">>), Num(0)}

\* Texts with the characters innerHTML escapes and with quotes.
TextValues == {Str(<<"a", "<", "b", ">", "&", "c">>), Str(<<"\"", "'">>)}

\* Elements a script made with document.createElement.
Created(N) == {i \in Pool : N[i].nodeType = ELEMENT_NODE /\ N[i].ownerDocument = document}

\* Nodes a script holds: created elements and text nodes.
Held(N) == {i \in Pool : N[i].nodeType # 0 /\ N[i].ownerDocument = document}

Parsers == {"DOMParser", "DOMParserEx"}

Selectors ==
    {Selector("script", "", "none", <<>>),
     Selector("div", "", "none", <<>>),
     Selector("script", "type", "equals", Observable),
     Selector("", "id", "equals", <<>>),
     Selector("", "id", "exists", <<>>),
     Selector("head", "", "none", <<>>),
     InvalidSelector}

\* prior: the children the element had (textContent), or 1 when the
\* attribute was present (a property assignment), before the statement ran.
NoCall == [op |-> "none", node |-> 0, prop |-> "", value |-> Null, prior |-> 0]

\* Sequences of at most n members of S.
SeqsUpTo(S, n) == UNION {[1..k -> S] : k \in 0..n}

\* ------------------------------------------------ notebook serializer
\* Cell["mode"] of Observable Notebook Kit
Modes == {"md", "js", "ojs", "html", "tex", "sql", "dot"}

VSCODE_TO_OBSERVABLE_MODE_MAP ==
    [l \in {"markdown", "javascript", "ojs", "html", "css", "tex", "sql", "dot"} |->
        CASE l = "markdown" -> "md"
          [] l = "javascript" -> "js"
          [] l = "css" -> "html"
          [] OTHER -> l]

OBSERVABLE_TO_VSCODE_MODE_MAP ==
    [m \in {"md", "js", "ojs", "html", "tex", "sql", "dot"} |->
        CASE m = "md" -> "markdown"
          [] m = "js" -> "javascript"
          [] OTHER -> m]

\* map[key] || fallback
Lookup(map, key, fallback) == IF key \in DOMAIN map THEN map[key] ELSE fallback

\* An Observable cell, and the notebooks of at most MaxCells cells.
Cells ==
    [id : {Num(n) : n \in 0..MaxCellId}, mode : Modes, value : {<<>>, <<"1">>},
     pinned : {Bool(TRUE), Bool(FALSE), Undefined}]

Notebooks == SeqsUpTo(Cells, MaxCells)

NoData == [cells |-> <<>>, made |-> FALSE]

\* cell.metadata?.id ? parseInt(cell.metadata.id) : cellIdCounter++
cellIdOf(metadata, cellIdCounter) ==
    IF Truthy(metadata.id) THEN parseInt(metadata.id) ELSE Num(cellIdCounter)

\* deserializeObservableKitNotebook, from the Notebook that notebook-kit's
\* deserialize returned: one NotebookCellData per cell, its metadata a copy
\* of the cell with pinned made a boolean
deserializeObservableKitNotebook(nb) ==
    [cells |->
        [k \in 1..Len(nb) |->
            [kind |-> IF nb[k].mode = "md" THEN "Markup" ELSE "Code",
             value |-> nb[k].value,
             languageId |-> Lookup(OBSERVABLE_TO_VSCODE_MODE_MAP, nb[k].mode, "javascript"),
             metadata |-> [nb[k] EXCEPT !.pinned = IF IsNullish(nb[k].pinned)
                                                    THEN Bool(FALSE) ELSE nb[k].pinned]]],
     made |-> TRUE]

\* serializeToObservableKitFormat, up to the Notebook handed to
\* notebook-kit's serialize: the cells, with cellIdCounter running from 1
serializeToObservableKitFormat(d) ==
    LET used(k) == ~Truthy(d.cells[k].metadata.id)
        counter[k \in 0..Len(d.cells)] ==
            IF k = 0 THEN 1 ELSE IF used(k) THEN counter[k - 1] + 1 ELSE counter[k - 1]
    IN  [k \in 1..Len(d.cells) |->
            [id |-> cellIdOf(d.cells[k].metadata, counter[k - 1]),
             value |-> d.cells[k].value,
             mode |-> Lookup(VSCODE_TO_OBSERVABLE_MODE_MAP, d.cells[k].languageId, "js"),
             pinned |-> Coalesce(d.cells[k].metadata.pinned, Bool(FALSE))]]

\* ------------------------------------------------------- HTML preview
\* The HTML documents of the workspace, and a document that is not HTML.
HtmlDocs == {"a.html", "b.html"}

OtherDocs == {"notes.txt"}

NoDoc == "undefined"

\* doc.languageId === 'html' || doc.fileName.endsWith('.html') || ...
isHtml(d) == d \in HtmlDocs

PreviewIds == 1..MaxPreviews

\* TranspileOptions as the constructor of HtmlPreview sets them.
\* customTransformers is the array the constructor of HtmlTranspiler makes,
\* held here by its elements.
DefaultOptions ==
    [enableScripts |-> TRUE, enableStyles |-> TRUE, preserveComments |-> FALSE,
     customTransformers |-> <<>>]

\* { ...this.options, ...newOptions }
updateOptions(options, newOptions) ==
    [k \in DOMAIN options |-> IF k \in DOMAIN newOptions THEN newOptions[k] ELSE options[k]]

\* getOptions() of the transpiler of instance p: { ...this.options }, an
\* object of its own whose customTransformers is the very array of
\* this.options (the array of instance p).
getOptions(p, options) ==
    [owner |-> p, enableScripts |-> options.enableScripts,
     enableStyles |-> options.enableStyles,
     preserveComments |-> options.preserveComments,
     customTransformers |-> [array |-> p]]

\* No object was returned by getTranspilerOptions yet.
NoCopy ==
    [owner |-> 0, enableScripts |-> TRUE, enableStyles |-> TRUE, preserveComments |-> FALSE,
     customTransformers |-> [array |-> 0]]

\* What a webview shows: the document rendered, its text (the number of
\* edits it had) and the options it was transpiled with.
NoHtml == [doc |-> NoDoc, text |-> 0, options |-> DefaultOptions]

\* A registration with a VS Code event, as _disposables holds it. doc is
\* the textDocument the callback closed over.
Listener(kind, d) == [kind |-> kind, doc |-> d]

\* An instance not made yet.
NoPreview ==
    [made |-> FALSE, panel |-> "none", _isDisposed |-> FALSE, _currentDocument |-> NoDoc,
     _disposables |-> <<>>, _updateTimeout |-> 0, options |-> DefaultOptions,
     html |-> NoHtml, title |-> NoDoc]

\* The state the methods work on: the static currentPanel, the
\* instances, the pending timeouts, the documents; and of the call in
\* progress the panels it accessed (touched), the html it assigned
\* (wrote), the panels it revealed, the entries of _disposables whose
\* dispose() it called (called) and the value it returned (ret). throws:
\* the kinds of registration whose dispose() throws.
World(cur, pv, tm, docs) ==
    [currentPanel |-> cur, previews |-> pv, timers |-> tm, documents |-> docs,
     touched |-> {}, wrote |-> <<>>, revealed |-> {}, called |-> <<>>, throws |-> {},
     ret |-> FALSE]

RECURSIVE popAndDispose(_, _, _, _)
\* while (entries.length > keep) { const x = entries.pop(); if (x) x.dispose(); }
\* with every x.dispose() in a try/catch when caught, and left to end the
\* loop when it throws otherwise.
popAndDispose(entries, keep, throws, caught) ==
    IF Len(entries) <= keep THEN [left |-> entries, called |-> <<>>, thrown |-> FALSE]
    ELSE LET x == entries[Len(entries)]
             rest == SubSeq(entries, 1, Len(entries) - 1)
             more == popAndDispose(rest, keep, throws, caught)
         IN  IF x.kind \in throws /\ ~caught
             THEN [left |-> rest, called |-> <<x>>, thrown |-> TRUE]
             ELSE [more EXCEPT !.called = <<x>> \o @]

\* As isPanelUsable, without the early return on _isDisposed.
isPanelUsableUnflagged(w, p) ==
    IF w.previews[p].panel = "live"
    THEN [w EXCEPT !.touched = @ \cup {p}, !.ret = TRUE]
    ELSE [w EXCEPT !.touched = @ \cup {p}, !.ret = FALSE,
                   !.previews[p]._isDisposed = TRUE,
                   !.currentPanel = IF @ = p THEN 0 ELSE @]

\* isPanelUsable(): false when _isDisposed; else read webview.html and
\* assign the title to itself, which throws on a disposed panel, and then
\* set _isDisposed and clear currentPanel when it is this instance
isPanelUsable(w, p) ==
    IF w.previews[p]._isDisposed THEN [w EXCEPT !.ret = FALSE]
    ELSE IF w.previews[p].panel = "live"
    THEN [w EXCEPT !.touched = @ \cup {p}, !.ret = TRUE]
    ELSE [w EXCEPT !.touched = @ \cup {p}, !.ret = FALSE,
                   !.previews[p]._isDisposed = TRUE,
                   !.currentPanel = IF @ = p THEN 0 ELSE @]

\* updateContent(textDocument): when the panel is usable, transpile the
\* text and assign webview.html and the title. current is _currentDocument
\* at the assignment.
updateContent(w, p, d) ==
    LET u == isPanelUsable(w, p)
        shown == [doc |-> d, text |-> u.documents[d], options |-> u.previews[p].options]
    IN  IF ~u.ret THEN u
        ELSE [u EXCEPT !.previews[p].html = shown,
                       !.previews[p].title = d,
                       !.wrote = Append(@, [preview |-> p, doc |-> d,
                                            current |-> u.previews[p]._currentDocument])]

\* setupDocumentWatcher(textDocument): when another document was current,
\* pop and dispose _disposables down to its first entry; then set
\* _currentDocument and push the three watchers
setupDocumentWatcher(w, p, d) ==
    LET me == w.previews[p]
        kept == IF me._currentDocument # NoDoc /\ me._currentDocument # d
                THEN popAndDispose(me._disposables, 1, {}, FALSE)
                ELSE [left |-> me._disposables, called |-> <<>>, thrown |-> FALSE]
    IN  [w EXCEPT !.previews[p]._currentDocument = d,
                  !.called = @ \o kept.called,
                  !.previews[p]._disposables =
                        kept.left \o <<Listener("onDidSaveTextDocument", d),
                                  Listener("onDidChangeTextDocument", d),
                                  Listener("onDidChangeActiveTextEditor", NoDoc)>>]

\* switchToDocument(document)
switchToDocument(w, p, d) ==
    LET u == isPanelUsable(w, p)
    IN  IF ~u.ret THEN u
        ELSE IF d # u.previews[p]._currentDocument
        THEN updateContent(setupDocumentWatcher(u, p, d), p, d)
        ELSE u

\* The handle setTimeout returns: one that no pending timeout has and no
\* other instance holds.
NewHandle(w, p) ==
    LET taken == {t.id : t \in w.timers}
                    \cup {w.previews[q]._updateTimeout : q \in PreviewIds \ {p}}
    IN  CHOOSE h \in 1..(Cardinality(taken) + 1) :
            h \notin taken /\ \A g \in 1..(h - 1) : g \in taken

\* As debounceUpdate, without clearTimeout.
debounceUpdateNoClear(w, p, d) ==
    LET u == isPanelUsable(w, p)
        h == NewHandle(u, p)
    IN  IF ~u.ret THEN u
        ELSE [u EXCEPT !.timers = @ \cup {[id |-> h, owner |-> p, doc |-> d]},
                       !.previews[p]._updateTimeout = h]

\* debounceUpdate(document): when the panel is usable, clear the timeout
\* held and set one that will call updateContent(document)
debounceUpdate(w, p, d) ==
    LET u == isPanelUsable(w, p)
        c == [u EXCEPT !.timers = {t \in @ : t.id # u.previews[p]._updateTimeout}]
        h == NewHandle(c, p)
    IN  IF ~u.ret THEN u
        ELSE [c EXCEPT !.timers = @ \cup {[id |-> h, owner |-> p, doc |-> d]},
                       !.previews[p]._updateTimeout = h]

\* The timeout's callback: if (this.isPanelUsable()) this.updateContent(document)
timeoutCallback(w, p, d) ==
    LET u == isPanelUsable(w, p)
    IN  IF u.ret THEN updateContent(u, p, d) ELSE u

\* updateTranspilerOptions(options)
updateTranspilerOptions(w, p, newOptions) ==
    LET u == isPanelUsable(w, p)
        o == [u EXCEPT !.previews[p].options = updateOptions(@, newOptions)]
    IN  IF ~u.ret THEN u
        ELSE IF o.previews[p]._currentDocument # NoDoc
        THEN updateContent(o, p, o.previews[p]._currentDocument)
        ELSE o

\* As dispose, leaving HtmlPreview.currentPanel as it is.
disposeKeepReference(w, p) ==
    [w EXCEPT !.previews[p]._isDisposed = TRUE,
              !.timers = {t \in @ : t.id # w.previews[p]._updateTimeout},
              !.previews[p]._updateTimeout = 0,
              !.previews[p]._disposables = <<>>,
              !.previews[p]._currentDocument = NoDoc,
              !.previews[p].panel = "disposed"]

\* As dispose, with no try/catch around x.dispose(): the first entry that
\* throws ends dispose().
disposeUncaught(w, p) ==
    LET all == popAndDispose(w.previews[p]._disposables, 0, w.throws, FALSE)
        popped == [w EXCEPT !.previews[p]._isDisposed = TRUE,
                            !.timers = {t \in @ : t.id # w.previews[p]._updateTimeout},
                            !.previews[p]._updateTimeout = 0,
                            !.previews[p]._disposables = all.left,
                            !.called = @ \o all.called]
    IN  IF all.thrown THEN popped
        ELSE [popped EXCEPT !.previews[p]._currentDocument = NoDoc,
                            !.currentPanel = IF @ = p THEN 0 ELSE @,
                            !.previews[p].panel = "disposed"]

\* dispose(): set _isDisposed, clear the timeout, pop every entry of
\* _disposables and call its dispose() (what it throws is caught), forget
\* the document, clear currentPanel when it is this instance, dispose the
\* panel
dispose(w, p) ==
    LET all == popAndDispose(w.previews[p]._disposables, 0, w.throws, TRUE)
    IN  [w EXCEPT !.previews[p]._isDisposed = TRUE,
                  !.timers = {t \in @ : t.id # w.previews[p]._updateTimeout},
                  !.previews[p]._updateTimeout = 0,
                  !.previews[p]._disposables = all.left,
                  !.called = @ \o all.called,
                  !.previews[p]._currentDocument = NoDoc,
                  !.currentPanel = IF @ = p THEN 0 ELSE @,
                  !.previews[p].panel = "disposed"]

\* new HtmlPreview(panel, ctx, textDocument) as instance n, on a panel just
\* made: with a document, updateContent and setupDocumentWatcher; then the
\* listener for the panel's disposal is pushed
construct(w, n, d) ==
    LET fresh == [w EXCEPT !.previews[n] = [NoPreview EXCEPT !.made = TRUE, !.panel = "live"]]
        shown == IF d # NoDoc THEN setupDocumentWatcher(updateContent(fresh, n, d), n, d)
                 ELSE fresh
    IN  [shown EXCEPT !.previews[n]._disposables =
                            Append(@, Listener("onDidDispose", NoDoc))]

\* The instance the next new HtmlPreview is; 0 when MaxPreviews were made.
NextPreview(w) ==
    IF \A q \in PreviewIds : w.previews[q].made THEN 0
    ELSE CHOOSE n \in PreviewIds :
            ~w.previews[n].made /\ \A q \in 1..(n - 1) : w.previews[q].made

\* HtmlPreview.hasUsablePanel()
hasUsablePanel(w) ==
    IF w.currentPanel = 0 THEN [w EXCEPT !.ret = FALSE]
    ELSE LET u == isPanelUsable(w, w.currentPanel)
         IN  IF ~u.ret THEN [u EXCEPT !.currentPanel = 0] ELSE u

\* As createOrShow, reusing currentPanel whenever it is set.
createOrShowAnyPanel(w, d) ==
    IF w.currentPanel # 0 THEN switchToDocument(w, w.currentPanel, d)
    ELSE [construct(w, NextPreview(w), d) EXCEPT !.currentPanel = NextPreview(w)]

\* As createOrShow, making a new panel while instances can still be made.
createOrShowNewPanel(w, d) ==
    IF NextPreview(w) = 0 THEN switchToDocument(w, w.currentPanel, d)
    ELSE [construct(w, NextPreview(w), d) EXCEPT !.currentPanel = NextPreview(w)]

\* HtmlPreview.createOrShow(ctx, textDocument): switch and reveal the
\* usable current panel, else make a panel and an instance for it
createOrShow(w, d) ==
    LET h == hasUsablePanel(w)
    IN  IF h.ret
        THEN [switchToDocument(h, h.currentPanel, d) EXCEPT
                    !.revealed = @ \cup {h.currentPanel}]
        ELSE [construct(h, NextPreview(h), d) EXCEPT !.currentPanel = NextPreview(h)]

\* HtmlPreview.revive(panel, ctx), the active editor showing document d
revive(w, d) ==
    LET n == NextPreview(w)
        c == construct(w, n, NoDoc)
        r == [c EXCEPT !.currentPanel = n]
    IN  IF isHtml(d) THEN setupDocumentWatcher(updateContent(r, n, d), n, d) ELSE r

\* The registrations of one kind, instance by instance, in the order of
\* _disposables.
RECURSIVE Registered(_, _, _)
Registered(w, kind, n) ==
    IF n = 0 THEN <<>>
    ELSE LET mine == w.previews[n]._disposables
             tagged == [k \in 1..Len(mine) |-> [owner |-> n, kind |-> mine[k].kind,
                                                 doc |-> mine[k].doc]]
             isKind(r) == r.kind = kind
         IN  Registered(w, kind, n - 1) \o SelectSeq(tagged, isKind)

\* The callbacks setupDocumentWatcher registers, run for event document d.
callback(w, r, d) ==
    CASE r.kind = "onDidSaveTextDocument" ->
            IF d = r.doc THEN updateContent(w, r.owner, d) ELSE w
      [] r.kind = "onDidChangeTextDocument" ->
            IF d = r.doc THEN debounceUpdate(w, r.owner, d) ELSE w
      [] r.kind = "onDidChangeActiveTextEditor" ->
            IF isHtml(d) THEN switchToDocument(w, r.owner, d) ELSE w
      [] OTHER -> dispose(w, r.owner)

RECURSIVE deliver(_, _, _)
\* VS Code calls the registered callbacks one after the other.
deliver(w, regs, d) ==
    IF regs = <<>> THEN w ELSE deliver(callback(w, Head(regs), d), Tail(regs), d)

\* An event of one kind about document d.
fire(w, kind, d) == deliver(w, Registered(w, kind, MaxPreviews), d)

\* ------------------------------------------------------------ actions
\* before: currentPanel and the instances as the event found them.
NoOp ==
    [op |-> "none", doc |-> NoDoc, arg |-> <<>>, target |-> 0, disposedBefore |-> {},
     touched |-> {}, wrote |-> <<>>, revealed |-> {}, called |-> <<>>,
     before |-> [currentPanel |-> 0, previews |-> [q \in PreviewIds |-> NoPreview],
                 timers |-> {}]]

\* The extension is activated: no preview was opened yet.
NoPreviews ==
    /\ currentPanel = 0
    /\ previews = [q \in PreviewIds |-> NoPreview]
    /\ timers = {}
    /\ documents = [d \in HtmlDocs \cup OtherDocs |-> 0]
    /\ activeTextEditor = "a.html"
    /\ lastOp = NoOp
    /\ optionsCopy = NoCopy
    /\ consoleButton = "Log to Console"
    /\ feedback = <<>>
    /\ clock = 0

Init ==
    /\ globalThis = install(NoDocument, [i \in NodeIds |-> FreeNode]).globalThis
    /\ nodes = install(NoDocument, [i \in NodeIds |-> FreeNode]).nodes
    /\ lastCall = NoCall
    /\ calls = 0
    /\ parsed = NotParsed
    /\ result = NoResult
    /\ notebook = <<>>
    /\ notebookData = NoData
    /\ saved = <<>>
    /\ NoPreviews

\* One more statement of the script, the module's evaluation apart.
Step ==
    calls < MaxCalls /\ calls' = calls + 1 /\ UNCHANGED <<globalThis, kitVars, previewVars, buttonVars>>

\* A statement that is no query and no parse.
DomStep == Step /\ UNCHANGED <<parsed, result>>

CreateElement(name) ==
    /\ DomStep
    /\ globalThis.document # "none"
    /\ FreeIds(nodes) # {}
    /\ nodes' = IF globalThis.createElement = "enhanced"
                THEN createElement(nodes, name)
                ELSE [nodes EXCEPT ![NextId(nodes)] = NewElement(document, name)]
    /\ lastCall' = [NoCall EXCEPT !.op = "createElement", !.node = NextId(nodes)]

CreateTextNode(data) ==
    /\ DomStep
    /\ FreeIds(nodes) # {}
    /\ nodes' = createTextNode(nodes, data)
    /\ lastCall' = [NoCall EXCEPT !.op = "createTextNode", !.node = NextId(nodes),
                                   !.value = data]

SetAttribute(e, name, chars) ==
    /\ DomStep
    /\ nodes' = setAttribute(nodes, e, name, chars)
    /\ lastCall' = [NoCall EXCEPT !.op = "setAttribute", !.node = e, !.prop = name,
                                   !.value = Str(chars)]

RemoveAttribute(e, name) ==
    /\ DomStep
    /\ nodes' = removeAttribute(nodes, e, name)
    /\ lastCall' = [NoCall EXCEPT !.op = "removeAttribute", !.node = e, !.prop = name]

\* e.prop = value
AssignProperty(e, prop, value) ==
    /\ DomStep
    /\ nodes' = PropSet(nodes, e, prop, value)
    /\ lastCall' = [NoCall EXCEPT !.op = "assign", !.node = e, !.prop = prop,
                                   !.value = value,
                                   !.prior = IF hasAttribute(nodes, e, prop) THEN 1 ELSE 0]

\* p.appendChild(c)
AppendChild(p, c) ==
    /\ DomStep
    /\ c # p
    /\ c \notin Ancestors(nodes, p)
    /\ nodes' = appendChild(nodes, p, c)
    /\ lastCall' = [NoCall EXCEPT !.op = "appendChild", !.node = p]

\* e.textContent = value
AssignTextContent(e, value) ==
    /\ DomStep
    /\ nodes[e].shimText
    /\ IsNullish(value) \/ FreeIds(nodes) # {}
    /\ nodes' = textContentSet(nodes, e, value)
    /\ lastCall' = [NoCall EXCEPT !.op = "textContent", !.node = e, !.value = value,
                                   !.prior = Len(nodes[e].childNodes)]

\* doc = new DOMParser().parseFromString(markup, "text/html"), or the same
\* of the serializer's DOMParserEx, which replaces the two query methods
ParseFromString(parser, markup) ==
    /\ Step
    /\ parsed = NotParsed
    /\ Cardinality(FreeIds(nodes)) > Len(ParsedTree(markup))
    /\ nodes' = parseFromString(nodes, markup)
    /\ parsed' = [doc |-> NextId(nodes), parser |-> parser, markup |-> markup]
    /\ lastCall' = [NoCall EXCEPT !.op = "parseFromString", !.node = NextId(nodes)]
    /\ UNCHANGED result

Stamp(r, call, entry, target, sel) ==
    [r EXCEPT !.call = call, !.entry = entry, !.target = target, !.sel = sel]

\* document.querySelector(sel) on the global document
DocumentQuerySelector(sel) ==
    /\ Step
    /\ result' = Stamp(documentQuerySelector(nodes, sel),
                       "querySelector", "document", document, sel)
    /\ lastCall' = [NoCall EXCEPT !.op = "querySelector", !.node = document]
    /\ UNCHANGED <<nodes, parsed>>

\* document.querySelectorAll(sel) on the global document
DocumentQuerySelectorAll(sel) ==
    /\ Step
    /\ result' = Stamp(documentQuerySelectorAll(nodes, sel),
                       "querySelectorAll", "document", document, sel)
    /\ lastCall' = [NoCall EXCEPT !.op = "querySelectorAll", !.node = document]
    /\ UNCHANGED <<nodes, parsed>>

\* doc.querySelector(sel) on a parsed document
ParsedQuerySelector(sel) ==
    /\ Step
    /\ parsed # NotParsed
    /\ result' = Stamp(IF parsed.parser = "DOMParserEx"
                       THEN parserExQuerySelector(nodes, parsed.doc, sel)
                       ELSE parserQuerySelector(nodes, parsed.doc, sel),
                       "querySelector", parsed.parser, parsed.doc, sel)
    /\ lastCall' = [NoCall EXCEPT !.op = "querySelector", !.node = parsed.doc]
    /\ UNCHANGED <<nodes, parsed>>

\* doc.querySelectorAll(sel) on a parsed document
ParsedQuerySelectorAll(sel) ==
    /\ Step
    /\ parsed # NotParsed
    /\ result' = Stamp(IF parsed.parser = "DOMParserEx"
                       THEN parserExQuerySelectorAll(nodes, parsed.doc, sel)
                       ELSE parserQuerySelectorAll(nodes, parsed.doc, sel),
                       "querySelectorAll", parsed.parser, parsed.doc, sel)
    /\ lastCall' = [NoCall EXCEPT !.op = "querySelectorAll", !.node = parsed.doc]
    /\ UNCHANGED <<nodes, parsed>>

\* adapter.removeSubsets(list), as css-select calls it on a list of
\* context elements
RemoveSubsets(ad, list) ==
    /\ Step
    /\ result' = [NoResult EXCEPT !.call = "removeSubsets", !.entry = ad,
                                   !.input = list, !.list = removeSubsets(nodes, list)]
    /\ lastCall' = [NoCall EXCEPT !.op = "removeSubsets"]
    /\ UNCHANGED <<nodes, parsed>>

\* The module dom-polyfill.ts is evaluated (imported), once more or for the
\* first time. prior: 1 when a global document was there already.
Install ==
    /\ calls < MaxCalls
    /\ calls' = calls + 1
    /\ globalThis' = install(globalThis, nodes).globalThis
    /\ nodes' = install(globalThis, nodes).nodes
    /\ lastCall' = [NoCall EXCEPT !.op = "install",
                                   !.prior = IF globalThis.document = "none" THEN 0 ELSE 1]
    /\ UNCHANGED <<parsed, result, kitVars, previewVars, buttonVars>>

\* Before the polyfill is evaluated: no global document, or the host's.
InstallInit ==
    /\ globalThis \in {NoDocument, HostDocument, BareHostDocument}
    /\ nodes = IF globalThis.document = "none" THEN [i \in NodeIds |-> FreeNode]
               ELSE InstalledDocument
    /\ lastCall = NoCall
    /\ calls = 0
    /\ parsed = NotParsed
    /\ result = NoResult
    /\ notebook = <<>>
    /\ notebookData = NoData
    /\ saved = <<>>
    /\ NoPreviews

\* A notebook file is opened: notebook-kit's deserialize has read it.
SerializerInit ==
    /\ notebook \in Notebooks
    /\ notebookData = NoData
    /\ saved = <<>>
    /\ NoPreviews
    /\ globalThis = PolyfillDocument
    /\ nodes = InstalledDocument
    /\ lastCall = NoCall
    /\ calls = 0
    /\ parsed = NotParsed
    /\ result = NoResult

\* NotebookKitSerializer.deserializeNotebook
DeserializeNotebook ==
    /\ ~notebookData.made
    /\ notebookData' = deserializeObservableKitNotebook(notebook)
    /\ lastCall' = [NoCall EXCEPT !.op = "deserializeNotebook"]
    /\ UNCHANGED <<notebook, saved, globalThis, nodes, calls, parsed, result, previewVars,
                   buttonVars>>

\* NotebookKitSerializer.serializeNotebook
SerializeNotebook ==
    /\ notebookData.made
    /\ lastCall.op # "serializeNotebook"
    /\ saved' = serializeToObservableKitFormat(notebookData)
    /\ lastCall' = [NoCall EXCEPT !.op = "serializeNotebook"]
    /\ UNCHANGED <<notebook, notebookData, globalThis, nodes, calls, parsed, result,
                   previewVars, buttonVars>>

\* The cell VS Code makes when the user adds one: a code cell with no
\* metadata of the notebook file, so cell.metadata?.id is undefined.
NewCell ==
    [kind |-> "Code", value |-> <<>>, languageId |-> "javascript",
     metadata |-> [id |-> Undefined, mode |-> Undefined, value |-> Undefined,
                   pinned |-> Undefined]]

\* The user adds a cell after the first k cells of the open notebook.
InsertCell(k) ==
    /\ notebookData.made
    /\ Len(notebookData.cells) < MaxCells
    /\ notebookData' = [notebookData EXCEPT !.cells =
                            SubSeq(@, 1, k) \o <<NewCell>> \o SubSeq(@, k + 1, Len(@))]
    /\ lastCall' = [NoCall EXCEPT !.op = "insertCell"]
    /\ UNCHANGED <<notebook, saved, globalThis, nodes, calls, parsed, result, previewVars,
                   buttonVars>>

\* The world the methods of HtmlPreview find.
Now == World(currentPanel, previews, timers, documents)

\* One event of the preview's life has been handled, leaving w.
HandledWith(w, op, d, p, arg) ==
    /\ calls < MaxEvents
    /\ calls' = calls + 1
    /\ currentPanel' = w.currentPanel
    /\ previews' = w.previews
    /\ timers' = w.timers
    /\ lastOp' = [op |-> op, doc |-> d, arg |-> arg, target |-> p,
                  disposedBefore |-> {q \in PreviewIds : previews[q]._isDisposed},
                  touched |-> w.touched, wrote |-> w.wrote, revealed |-> w.revealed,
                  called |-> w.called,
                  before |-> [currentPanel |-> currentPanel, previews |-> previews,
                              timers |-> timers]]
    /\ UNCHANGED <<globalThis, nodes, lastCall, parsed, result, kitVars, buttonVars>>

Handled(w, op, d, p) == HandledWith(w, op, d, p, <<>>) /\ UNCHANGED optionsCopy

\* The preview command runs for document d.
CreateOrShow(d) ==
    /\ hasUsablePanel(Now).ret \/ NextPreview(Now) # 0
    /\ Handled(createOrShow(Now, d), "createOrShow", d, 0)
    /\ UNCHANGED <<documents, activeTextEditor>>

\* VS Code restores a preview panel of an earlier session.
Revive ==
    /\ NextPreview(Now) # 0
    /\ Handled(revive(Now, activeTextEditor), "revive", activeTextEditor, 0)
    /\ UNCHANGED <<documents, activeTextEditor>>

\* Document d is saved.
SaveTextDocument(d) ==
    /\ Handled(fire(Now, "onDidSaveTextDocument", d), "save", d, 0)
    /\ UNCHANGED <<documents, activeTextEditor>>

\* Document d is edited.
ChangeTextDocument(d) ==
    /\ documents[d] < MaxEdits
    /\ documents' = [documents EXCEPT ![d] = @ + 1]
    /\ Handled(fire(World(currentPanel, previews, timers, documents'),
                     "onDidChangeTextDocument", d), "change", d, 0)
    /\ UNCHANGED activeTextEditor

\* The user turns to the editor of document d.
ChangeActiveTextEditor(d) ==
    /\ d # activeTextEditor
    /\ activeTextEditor' = d
    /\ Handled(fire(Now, "onDidChangeActiveTextEditor", d), "activeEditor", d, 0)
    /\ UNCHANGED documents

\* A pending timeout expires: it is pending no more and its callback runs.
Timeout(t) ==
    /\ t \in timers
    /\ Handled(timeoutCallback([Now EXCEPT !.timers = @ \ {t}], t.owner, t.doc),
               "timeout", t.doc, t.owner)
    /\ UNCHANGED <<documents, activeTextEditor>>

\* The user closes the panel of instance p: VS Code disposes the panel and
\* calls the listeners of its disposal that are still registered.
ClosePanel(p) ==
    /\ previews[p].panel = "live"
    /\ Handled(deliver([Now EXCEPT !.previews[p].panel = "disposed"],
                       LET regs == Registered(Now, "onDidDispose", MaxPreviews)
                           mine(r) == r.owner = p
                       IN  SelectSeq(regs, mine), NoDoc),
               "close", NoDoc, p)
    /\ UNCHANGED <<documents, activeTextEditor>>

\* The registrations whose dispose() may throw.
Throwing == {{}, {"onDidChangeTextDocument"}}

\* The host calls dispose() of instance p, the dispose() of the
\* registrations of the kinds in throws throwing.
Dispose(p, throws) ==
    /\ previews[p].made
    /\ HandledWith(dispose([Now EXCEPT !.throws = throws], p), "dispose", NoDoc, p, throws)
    /\ UNCHANGED <<documents, activeTextEditor, optionsCopy>>

\* The options a caller of updateTranspilerOptions passes.
NewOptions == {[enableScripts |-> FALSE], [preserveComments |-> TRUE]}

\* The host calls updateTranspilerOptions(newOptions) of instance p.
UpdateTranspilerOptions(p, newOptions) ==
    /\ previews[p].made
    /\ HandledWith(updateTranspilerOptions(Now, p, newOptions), "updateTranspilerOptions",
                   NoDoc, p, newOptions)
    /\ UNCHANGED <<documents, activeTextEditor, optionsCopy>>

\* getTranspilerOptions(): return this._transpiler.getOptions()
getTranspilerOptions(p, options) == getOptions(p, options)

\* A caller takes the options of instance p.
GetTranspilerOptions(p) ==
    /\ previews[p].made
    /\ HandledWith(Now, "getTranspilerOptions", NoDoc, p, <<>>)
    /\ optionsCopy' = getTranspilerOptions(p, previews[p].options)
    /\ UNCHANGED <<documents, activeTextEditor>>

\* The switches of TranspileOptions.
Switches == {"enableScripts", "enableStyles", "preserveComments"}

\* The caller assigns a property of the object it was returned.
AssignCopy(k, v) ==
    /\ optionsCopy.owner # 0
    /\ HandledWith(Now, "assignCopy", NoDoc, optionsCopy.owner, <<>>)
    /\ optionsCopy' = [optionsCopy EXCEPT ![k] = v]
    /\ UNCHANGED <<documents, activeTextEditor>>

\* The transformers a caller has.
Transformers == {"upper"}

\* The caller pushes a transformer on the customTransformers of the object
\* it was returned, which is the array that object refers to.
PushCopy(f) ==
    /\ optionsCopy.owner # 0
    /\ LET a == optionsCopy.customTransformers.array
       IN  /\ Len(previews[a].options.customTransformers) < MaxTransformers
           /\ HandledWith([Now EXCEPT !.previews[a].options.customTransformers = Append(@, f)],
                          "pushCopy", NoDoc, optionsCopy.owner, <<>>)
    /\ UNCHANGED <<documents, activeTextEditor, optionsCopy>>

\* The delay of the button's setTimeout, in ms.
FeedbackDelay == 1500

\* The click listener of #console-log: originalText = textContent;
\* textContent = 'Logged! ...'; setTimeout(() => textContent = originalText, 1500)
click(label, pending, now) ==
    [textContent |-> "Logged!",
     feedback |-> Append(pending, [originalText |-> label, due |-> now + FeedbackDelay])]

\* The user clicks 'Log to Console'.
ClickConsoleLog ==
    /\ calls < MaxClicks
    /\ calls' = calls + 1
    /\ consoleButton' = click(consoleButton, feedback, clock).textContent
    /\ feedback' = click(consoleButton, feedback, clock).feedback
    /\ UNCHANGED <<clock, globalThis, nodes, lastCall, parsed, result, kitVars, previewVars>>

\* The oldest pending timeout is due and its callback runs:
\* consoleButton.textContent = originalText
FeedbackTimeout ==
    /\ feedback # <<>>
    /\ Head(feedback).due <= clock
    /\ consoleButton' = Head(feedback).originalText
    /\ feedback' = Tail(feedback)
    /\ UNCHANGED <<clock, calls, globalThis, nodes, lastCall, parsed, result, kitVars,
                   previewVars>>

\* Time passes, as long as no timeout is overdue.
Tick ==
    /\ clock < MaxTime + FeedbackDelay
    /\ feedback # <<>> => clock < Head(feedback).due
    /\ clock' = clock + TickMs
    /\ UNCHANGED <<consoleButton, feedback, calls, globalThis, nodes, lastCall, parsed, result,
                   kitVars, previewVars>>

\* Scripts that create elements and use their attributes and properties.
Next ==
    \/ \E name \in TagNames : CreateElement(name)
    \/ \E e \in Created(nodes), name \in AttrNames, chars \in AttrValues :
            SetAttribute(e, name, chars)
    \/ \E e \in Created(nodes), name \in AttrNames : RemoveAttribute(e, name)
    \/ \E e \in Created(nodes), prop \in AttrNames, value \in PropValues :
            AssignProperty(e, prop, value)

Spec == Init /\ [][Next]_vars

\* Scripts that build trees and assign textContent.
TextNext ==
    \/ \E name \in TagNames : CreateElement(name)
    \/ \E data \in PropValues : CreateTextNode(data)
    \/ \E p \in Created(nodes), c \in Held(nodes) : AppendChild(p, c)
    \/ \E e \in Created(nodes), value \in PropValues \cup TextValues :
            AssignTextContent(e, value)

TextSpec == Init /\ [][TextNext]_vars

\* Scripts that parse markup, build the global document's tree and query.
QueryNext ==
    \/ \E parser \in Parsers, markup \in Markups : ParseFromString(parser, markup)
    \/ \E name \in TagNames : CreateElement(name)
    \/ \E e \in Created(nodes), prop \in AttrNames, value \in PropValues :
            AssignProperty(e, prop, value)
    \/ \E p \in Created(nodes) \cup {bodyElement}, c \in Held(nodes) : AppendChild(p, c)
    \/ \E sel \in Selectors : DocumentQuerySelector(sel)
    \/ \E sel \in Selectors : DocumentQuerySelectorAll(sel)
    \/ \E sel \in Selectors : ParsedQuerySelector(sel)
    \/ \E sel \in Selectors : ParsedQuerySelectorAll(sel)

QuerySpec == Init /\ [][QueryNext]_vars

\* Hosts with and without a document, in which the polyfill is evaluated
\* any number of times between the statements of a script.
InstallNext ==
    \/ Install
    \/ \E name \in TagNames : CreateElement(name)
    \/ \E e \in Created(nodes), name \in AttrNames, chars \in AttrValues :
            SetAttribute(e, name, chars)
    \/ \E e \in Created(nodes), prop \in AttrNames, value \in PropValues :
            AssignProperty(e, prop, value)

InstallSpec == InstallInit /\ [][InstallNext]_vars

\* The life of the previews: commands, restored panels, edits, saves,
\* editor changes, timeouts, panels closed, and calls of the host.
PreviewNext ==
    \/ \E d \in HtmlDocs : CreateOrShow(d)
    \/ Revive
    \/ \E d \in HtmlDocs : SaveTextDocument(d)
    \/ \E d \in HtmlDocs : ChangeTextDocument(d)
    \/ \E d \in HtmlDocs \cup OtherDocs : ChangeActiveTextEditor(d)
    \/ \E t \in timers : Timeout(t)
    \/ \E p \in PreviewIds : ClosePanel(p)
    \/ \E p \in PreviewIds, throws \in Throwing : Dispose(p, throws)
    \/ \E p \in PreviewIds, newOptions \in NewOptions : UpdateTranspilerOptions(p, newOptions)

PreviewSpec == Init /\ [][PreviewNext]_vars

\* A preview whose transpiler's options are set, taken and, as taken,
\* modified by the caller.
OptionsNext ==
    \/ \E d \in HtmlDocs : CreateOrShow(d)
    \/ \E d \in HtmlDocs : SaveTextDocument(d)
    \/ \E d \in HtmlDocs \cup OtherDocs : ChangeActiveTextEditor(d)
    \/ \E p \in PreviewIds : ClosePanel(p)
    \/ \E p \in PreviewIds, newOptions \in NewOptions : UpdateTranspilerOptions(p, newOptions)
    \/ \E p \in PreviewIds : GetTranspilerOptions(p)
    \/ \E k \in Switches, v \in BOOLEAN : AssignCopy(k, v)
    \/ \E f \in Transformers : PushCopy(f)

OptionsSpec == Init /\ [][OptionsNext]_vars

\* The user clicks the 'Log to Console' button of SimplePreview while
\* time passes.
ButtonNext == ClickConsoleLog \/ FeedbackTimeout \/ Tick

ButtonSpec == Init /\ [][ButtonNext]_vars

\* A notebook is opened and saved.
SerializerNext == DeserializeNotebook \/ SerializeNotebook

SerializerSpec == SerializerInit /\ [][SerializerNext]_vars

\* A notebook is opened, cells are added to it and it is saved.
EditNext ==
    \/ DeserializeNotebook
    \/ \E k \in 0..MaxCells : k <= Len(notebookData.cells) /\ InsertCell(k)
    \/ SerializeNotebook

EditSpec == SerializerInit /\ [][EditNext]_vars

\* The elements of every tree there is.
Elements(N) == {i \in NodeIds : N[i].nodeType = ELEMENT_NODE}

\* The adapters' removeSubsets on lists of elements of the global document
\* and of a parsed one.
AdapterNext ==
    \/ \E parser \in Parsers, markup \in Markups : ParseFromString(parser, markup)
    \/ \E ad \in {"polyfill", "serializer"}, list \in SeqsUpTo(Elements(nodes), MaxInput) :
            RemoveSubsets(ad, list)

AdapterSpec == Init /\ [][AdapterNext]_vars

\* ============================================================== claims
\* The properties the claims state of an element: id on every element,
\* type on script elements.
ClaimedProps(N, e) ==
    {"id"} \cup (IF toLowerCase(N[e].nodeName) = "script" THEN {"type"} ELSE {})

\* The attribute's value, or "" when it is absent.
AttrOrEmpty(N, e, name) == IF N[e].attrs[name].has THEN Str(N[e].attrs[name].val) ELSE Empty

\* C1: on every element document.createElement returned, after any
\* sequence of setAttribute, removeAttribute and property assignments,
\* reading a synced property (id; type on a script element) gives the
\* attribute's current value, or "" when it is absent; and a non-null value
\* just assigned to the property is what getAttribute returns.
C1_PropertyMirrorsAttribute ==
    /\ \A e \in Created(nodes) : \A p \in ClaimedProps(nodes, e) :
            PropGet(nodes, e, p) = AttrOrEmpty(nodes, e, p)
    /\ (/\ lastCall.op = "assign"
        /\ lastCall.prop \in ClaimedProps(nodes, lastCall.node)
        /\ ~IsNullish(lastCall.value))
       => getAttribute(nodes, lastCall.node, lastCall.prop) = Str(String(lastCall.value))

\* C1's case: a script element created as "SCRIPT" whose type was just
\* assigned through the property while its id attribute was set directly.
C1_Witness ==
    /\ lastCall.op = "assign"
    /\ lastCall.prop = "type"
    /\ lastCall.value = Str(<<"x">>)
    /\ nodes[lastCall.node].nodeName = "SCRIPT"
    /\ nodes[lastCall.node].attrs["id"].has

\* C2: after E.P = v on a synced property P, reading E.P gives "" when v is
\* null or undefined and String(v) otherwise.
C2_AssignThenRead ==
    (lastCall.op = "assign" /\ lastCall.prop \in ClaimedProps(nodes, lastCall.node))
    => PropGet(nodes, lastCall.node, lastCall.prop)
         = (IF IsNullish(lastCall.value) THEN Empty ELSE Str(String(lastCall.value)))

\* C2's case: the number 0, which is falsy and not null, was assigned.
C2_Witness ==
    /\ lastCall.op = "assign"
    /\ lastCall.prop \in ClaimedProps(nodes, lastCall.node)
    /\ lastCall.value = Num(0)
    /\ PropGet(nodes, lastCall.node, lastCall.prop) = Str(<<"0">>)

\* C3: after null or undefined is assigned to a synced property, the
\* backing attribute is absent, whatever it held before.
C3_NullRemovesAttribute ==
    (/\ lastCall.op = "assign"
     /\ lastCall.prop \in ClaimedProps(nodes, lastCall.node)
     /\ IsNullish(lastCall.value))
    => ~hasAttribute(nodes, lastCall.node, lastCall.prop)

\* C3's case: undefined was assigned while the attribute was present.
C3_Witness ==
    /\ lastCall.op = "assign"
    /\ lastCall.prop \in ClaimedProps(nodes, lastCall.node)
    /\ lastCall.value = Undefined
    /\ lastCall.prior = 1

\* C4 as stated: after E.textContent = s for a string s, textContent reads
\* s, and E has one child, a text node, when s is not "" and no child when
\* s is "".
C4_Original ==
    (lastCall.op = "textContent" /\ lastCall.value.t = "string")
    => LET e == lastCall.node
       IN  /\ textContent(nodes, e) = lastCall.value.s
           /\ Len(nodes[e].childNodes) = (IF lastCall.value.s # <<>> THEN 1 ELSE 0)
           /\ \A k \in 1..Len(nodes[e].childNodes) :
                    nodes[nodes[e].childNodes[k]].nodeType = TEXT_NODE

\* C4 amended: after E.textContent = s for a string s, "" included,
\* textContent reads s and E has exactly one child, a text node holding s,
\* whatever children E had before.
C4_TextContentRoundTrip ==
    (lastCall.op = "textContent" /\ lastCall.value.t = "string")
    => LET e == lastCall.node
       IN  /\ textContent(nodes, e) = lastCall.value.s
           /\ Len(nodes[e].childNodes) = 1
           /\ nodes[nodes[e].childNodes[1]].nodeType = TEXT_NODE
           /\ nodes[nodes[e].childNodes[1]].nodeValue = lastCall.value
           /\ nodes[nodes[e].childNodes[1]].parentNode = e

\* C4's case: "" was assigned to an element that had children.
C4_Witness ==
    /\ lastCall.op = "textContent"
    /\ lastCall.value = Empty
    /\ lastCall.prior > 0
    /\ Len(nodes[lastCall.node].childNodes) = 1

RECURSIVE PreOrder(_, _)
\* The elements below node n, in document order.
PreOrder(N, n) ==
    LET kids == ElementChildren(N, n)
        walk[k \in 0..Len(kids)] ==
            IF k = 0 THEN <<>> ELSE walk[k - 1] \o <<kids[k]>> \o PreOrder(N, kids[k])
    IN  walk[Len(kids)]

\* Whether element e matches the selector, read off the tree itself.
Matches(N, sel, e) ==
    /\ sel.tag = "" \/ toLowerCase(N[e].nodeName) = sel.tag
    /\ sel.op = "exists" => N[e].attrs[sel.attr].has
    /\ sel.op = "equals" => N[e].attrs[sel.attr] = [has |-> TRUE, val |-> sel.value]

\* The elements of the document that match, in document order.
MatchesIn(N, doc, sel) ==
    LET hit(e) == Matches(N, sel, e) IN SelectSeq(PreOrder(N, doc), hit)

\* C5 as stated: the element querySelector returns from a parsed document
\* has id (and, a script, type) equal to its attribute or ""; for the
\* markup <div id="x"><script type="observable">1+1</script></div> the
\* query script[type="observable"] returns the script, whose type is
\* "observable" and whose id is "".
C5_ParsedElementProperties ==
    /\ (/\ result.call = "querySelector"
        /\ result.entry \in Parsers
        /\ result.value.t = "node")
       => \A p \in ClaimedProps(nodes, result.value.n) :
            PropGet(nodes, result.value.n, p) = AttrOrEmpty(nodes, result.value.n, p)
    /\ (/\ result.call = "querySelector"
        /\ result.entry \in Parsers
        /\ parsed.markup = "example"
        /\ result.sel = Selector("script", "type", "equals", Observable))
       => /\ result.value.t = "node"
          /\ nodes[result.value.n].nodeName = "script"
          /\ PropGet(nodes, result.value.n, "type") = Str(Observable)
          /\ PropGet(nodes, result.value.n, "id") = Empty

\* C6 as stated: querySelector does not throw and does not return
\* undefined; it returns the first matching element in document order,
\* and null when nothing matches or the selector is invalid, in which
\* case the error is logged.
C6_QuerySelectorResult ==
    result.call = "querySelector"
    => /\ ~result.threw
       /\ result.value # Undefined
       /\ result.value =
            (IF result.sel.valid /\ MatchesIn(nodes, result.target, result.sel) # <<>>
             THEN Ref(Head(MatchesIn(nodes, result.target, result.sel)))
             ELSE Null)
       /\ ~result.sel.valid => result.logged = 1

\* C7 as stated: at every entry point querySelectorAll with an invalid
\* selector does not throw, returns an empty list that has item(i) and
\* forEach like a successful result, and logs one diagnostic.
C7_InvalidSelectorAll ==
    (result.call = "querySelectorAll" /\ ~result.sel.valid)
    => /\ ~result.threw
       /\ result.list = <<>>
       /\ item(result, 0) = Null
       /\ result.forEach # "missing"
       /\ forEachCalls(result) = <<>>
       /\ result.logged = 1

\* C8 as stated: querySelectorAll returns the matching elements, each once,
\* in document order; item(i) is the i-th entry, item(i) is null out of
\* range, and forEach visits the entries in order with their indices.
C8_QuerySelectorAllResult ==
    (result.call = "querySelectorAll" /\ result.sel.valid)
    => /\ result.list = MatchesIn(nodes, result.target, result.sel)
       /\ \A i \in 0..(Len(result.list) - 1) : item(result, i) = indexed(result, i)
       /\ item(result, Len(result.list)) = Null
       /\ forEachCalls(result)
            = [k \in 1..Len(result.list) |-> <<indexed(result, k - 1), k - 1>>]

\* Nodes that exist.
Allocated(N) == {i \in NodeIds : N[i].nodeType # 0}

\* C9 as stated: the adapter operations give the same results at every
\* entry point, so the same tree and selector give the same result set.
C9_OneAdapter ==
    /\ \A n \in Allocated(nodes) :
        /\ getChildren("polyfill", nodes, n) = getChildren("serializer", nodes, n)
        /\ getSiblings("polyfill", nodes, n) = getSiblings("serializer", nodes, n)
        /\ getText("polyfill", nodes, n) = getText("serializer", nodes, n)
        /\ isTag(nodes, n) =>
              \A name \in AttrNames :
                /\ getAttributeValue("polyfill", nodes, n, name)
                     = getAttributeValue("serializer", nodes, n, name)
                /\ hasAttrib("polyfill", nodes, n, name)
                     = hasAttrib("serializer", nodes, n, name)
    /\ \A sel \in Selectors, root \in Allocated(nodes) :
          selectAll("polyfill", nodes, sel, root) = selectAll("serializer", nodes, sel, root)

\* C10 as stated: at both adapters getAttributeValue is undefined exactly
\* when the attribute is absent, and an attribute present with the value ""
\* is returned as "".
C10_AttributeValue ==
    \A ad \in {"polyfill", "serializer"} : \A e \in Allocated(nodes) :
        isTag(nodes, e) =>
            \A name \in AttrNames :
                /\ (getAttributeValue(ad, nodes, e, name) = Undefined)
                      <=> ~hasAttribute(nodes, e, name)
                /\ hasAttribute(nodes, e, name)
                      => getAttributeValue(ad, nodes, e, name) = getAttribute(nodes, e, name)

\* C11: removeSubsets returns, in input order, exactly the input nodes that
\* are not a descendant of another input node: of an ancestor and its
\* descendant only the ancestor stays, and a node with no ancestor in the
\* input always stays, also when it occurs more than once.
C11_RemoveSubsets ==
    result.call = "removeSubsets" =>
        LET inp == result.input
            kept(i) == \A j \in 1..Len(inp) : inp[j] \notin Ancestors(nodes, inp[i])
            out[k \in 0..Len(inp)] ==
                IF k = 0 THEN <<>>
                ELSE IF kept(k) THEN Append(out[k - 1], inp[k]) ELSE out[k - 1]
        IN  result.list = out[Len(inp)]

\* The text the claim gives for a text child: each &, < and > replaced by
\* its entity, every other character (quotes too) as it is.
Entity(c) ==
    CASE c = "&" -> amp
      [] c = "<" -> lt
      [] c = ">" -> gt
      [] OTHER -> <<c>>

RECURSIVE Escaped(_)
Escaped(text) == IF text = <<>> THEN <<>> ELSE Entity(Head(text)) \o Escaped(Tail(text))

\* C12: innerHTML of a created element is the concatenation, in child
\* order, of each element child's own serialization and each text child's
\* value with exactly &, < and > replaced by &amp;, &lt; and &gt; (quotes
\* unchanged); a text child a<b>&c contributes a&lt;b&gt;&amp;c.
C12_InnerHTML ==
    \A e \in Created(nodes) :
        LET ch == nodes[e].childNodes
            part(c) == IF nodes[c].nodeType = ELEMENT_NODE THEN toString(nodes, c)
                       ELSE Escaped(nodes[c].nodeValue.s)
            all[k \in 0..Len(ch)] == IF k = 0 THEN <<>> ELSE all[k - 1] \o part(ch[k])
        IN  /\ innerHTML(nodes, e) = all[Len(ch)]
            /\ (Len(ch) = 1 /\ nodes[ch[1]].nodeValue = Str(<<"a", "<", "b", ">", "&", "c">>))
                => innerHTML(nodes, e)
                     = <<"a", "&", "l", "t", ";", "b", "&", "g", "t", ";",
                         "&", "a", "m", "p", ";", "c">>

\* C12's case: an element whose children are the text a<b>&c and then an
\* element, its innerHTML starting with the escaped text.
C12_Witness ==
    \E e \in Created(nodes) :
        /\ Len(nodes[e].childNodes) = 2
        /\ nodes[nodes[e].childNodes[1]].nodeValue = Str(<<"a", "<", "b", ">", "&", "c">>)
        /\ nodes[nodes[e].childNodes[2]].nodeType = ELEMENT_NODE
        /\ SubSeq(innerHTML(nodes, e), 1, 5) = <<"a", "&", "l", "t", ";">>

\* C13: no text node made through the global document holds null or
\* undefined: createTextNode(null) and createTextNode() give a text node
\* whose value is the empty string, and the text node a textContent
\* assignment makes holds a string.
C13_TextNodeValue ==
    /\ \A t \in Held(nodes) :
            nodes[t].nodeType = TEXT_NODE => nodes[t].nodeValue.t = "string"
    /\ (lastCall.op = "createTextNode" /\ IsNullish(lastCall.value))
            => nodes[lastCall.node].nodeValue = Empty
    /\ (lastCall.op = "textContent" /\ ~IsNullish(lastCall.value))
            => \A k \in 1..Len(nodes[lastCall.node].childNodes) :
                    nodes[nodes[lastCall.node].childNodes[k]].nodeValue
                        = Str(String(lastCall.value))

\* C13's case: createTextNode() was just called without an argument.
C13_Witness ==
    /\ lastCall.op = "createTextNode"
    /\ lastCall.value = Undefined
    /\ nodes[lastCall.node].nodeType = TEXT_NODE
    /\ nodes[lastCall.node].nodeValue = Empty

\* C14: the install is conditional and idempotent. Evaluated while a
\* global document exists (the host's, or the one an earlier evaluation
\* installed), it changes nothing: the document, its tree and its
\* createElement, createTextNode, querySelector and querySelectorAll stay
\* as they were.
C14_InstallIdempotent ==
    [][(lastCall'.op = "install" /\ calls' = calls + 1 /\ globalThis.document # "none")
        => (globalThis' = globalThis /\ nodes' = nodes)]_vars

\* C14's case: the module was evaluated in a host that had a document in
\* which a script had already created an element.
C14_Witness ==
    /\ lastCall.op = "install"
    /\ lastCall.prior = 1
    /\ globalThis = HostDocument
    /\ Created(nodes) # {}

\* C15: a query on a Document matches against the tree rooted at its
\* document element, so the document element is among the results when it
\* fits the selector; and an Element answers selector queries itself,
\* which match inside its own subtree.
C15_QueryRoot ==
    /\ (/\ result.call = "querySelectorAll"
        /\ result.sel.valid
        /\ nodes[result.target].childNodes # <<>>
        /\ Matches(nodes, result.sel, Head(nodes[result.target].childNodes)))
       => \E k \in 1..Len(result.list) :
            result.list[k] = Head(nodes[result.target].childNodes)
    /\ \A e \in Created(nodes) \cup {result.list[k] : k \in 1..Len(result.list)} :
            {"querySelector", "querySelectorAll"} \subseteq elementMembers(nodes, e)

\* C16: deserializing a notebook and serializing the result back gives,
\* cell by cell and in order, the id, mode, value and pinned the cells had
\* (an absent pinned counting as false); and mapping an Observable mode to
\* its VS Code language and back gives the mode again.
C16_RoundTrip ==
    /\ \A m \in Modes :
            /\ m \in DOMAIN OBSERVABLE_TO_VSCODE_MODE_MAP
            /\ OBSERVABLE_TO_VSCODE_MODE_MAP[m] \in DOMAIN VSCODE_TO_OBSERVABLE_MODE_MAP
            /\ VSCODE_TO_OBSERVABLE_MODE_MAP[OBSERVABLE_TO_VSCODE_MODE_MAP[m]] = m
    /\ lastCall.op = "serializeNotebook" =>
            /\ Len(saved) = Len(notebook)
            /\ \A k \in 1..Len(notebook) :
                    /\ saved[k].id = notebook[k].id
                    /\ saved[k].mode = notebook[k].mode
                    /\ saved[k].value = notebook[k].value
                    /\ saved[k].pinned = Coalesce(notebook[k].pinned, Bool(FALSE))

\* C17: the preview shows the current document: whatever the order of
\* createOrShow, edits, saves, editor changes and timeouts, every html
\* assigned to a webview renders the document that is the instance's
\* _currentDocument (as it is when the call that assigned returns: the
\* constructor sets it right after its first assignment).
C17_ShowsCurrentDocument ==
    \A k \in 1..Len(lastOp.wrote) :
        lastOp.wrote[k].doc = previews[lastOp.wrote[k].preview]._currentDocument

\* The pending timeouts of instance p.
Pending(p) == {t \in timers : t.owner = p}

\* Instance p watches the edits of document d.
WatchesChanges(p, d) ==
    \E k \in 1..Len(previews[p]._disposables) :
        previews[p]._disposables[k] = Listener("onDidChangeTextDocument", d)

\* C18: an edit cancels the update scheduled before it and schedules a
\* new one, so a preview has at most one timeout pending, after an edit
\* of its document exactly one; and when the timeout expires the preview
\* is updated once, with the text as the last edit left it.
C18_OnePendingUpdate ==
    /\ \A p \in PreviewIds : Cardinality(Pending(p)) <= 1
    /\ lastOp.op = "change" =>
            \A p \in PreviewIds :
                (WatchesChanges(p, lastOp.doc) /\ p \in lastOp.touched
                    /\ ~previews[p]._isDisposed)
                => /\ Pending(p) = {[id |-> previews[p]._updateTimeout, owner |-> p,
                                     doc |-> lastOp.doc]}
                   /\ \A k \in 1..Len(lastOp.wrote) : lastOp.wrote[k].preview # p
    /\ lastOp.op = "timeout" =>
            /\ Len(lastOp.wrote) <= 1
            /\ \A p \in lastOp.touched :
                    ~previews[p]._isDisposed
                    => /\ Len(lastOp.wrote) = 1
                       /\ previews[p].html.doc = lastOp.doc
                       /\ previews[p].html.text = documents[lastOp.doc]

\* C18's case: the second edit of a burst: the document was edited twice,
\* the preview still shows the text from before, one timeout is pending.
C18_Witness ==
    /\ lastOp.op = "change"
    /\ documents[lastOp.doc] = 2
    /\ \E p \in PreviewIds :
            /\ previews[p].html = [doc |-> lastOp.doc, text |-> 0, options |-> DefaultOptions]
            /\ Cardinality(Pending(p)) = 1

\* C19: whatever was opened, switched and disposed before, when
\* createOrShow(doc) returns HtmlPreview.currentPanel is an instance that
\* is not disposed, whose panel is live and whose current document is doc.
C19_CreateOrShowRecovers ==
    lastOp.op = "createOrShow" =>
        /\ currentPanel # 0
        /\ ~previews[currentPanel]._isDisposed
        /\ previews[currentPanel].panel = "live"
        /\ previews[currentPanel]._currentDocument = lastOp.doc

\* C19's case: createOrShow found currentPanel set to an instance whose
\* panel had been closed without dispose() having run, and made a new one.
C19_Witness ==
    /\ lastOp.op = "createOrShow"
    /\ currentPanel = 2
    /\ 1 \in lastOp.touched
    /\ 1 \notin lastOp.disposedBefore
    /\ previews[1].panel = "disposed"

\* C20: once _isDisposed is set, no operation assigns the webview's html
\* or the title again: updateContent, switchToDocument,
\* updateTranspilerOptions, the watchers' callbacks and a timeout that
\* expires later all return without accessing the panel.
C20_NoWriteAfterDisposed ==
    \A q \in lastOp.disposedBefore :
        /\ q \notin lastOp.touched
        /\ \A k \in 1..Len(lastOp.wrote) : lastOp.wrote[k].preview # q

\* C20's case: a document is saved that an instance still watches which
\* was marked disposed before.
C20_Witness ==
    /\ lastOp.op = "save"
    /\ \E q \in lastOp.disposedBefore :
            \E k \in 1..Len(previews[q]._disposables) :
                previews[q]._disposables[k] = Listener("onDidSaveTextDocument", lastOp.doc)

\* An instance whose panel is usable.
Usable(me) == me.made /\ me.panel = "live" /\ ~me._isDisposed

\* Instance p has a watcher of this kind for document d registered.
Watches(p, kind, d) ==
    \E k \in 1..Len(previews[p]._disposables) :
        previews[p]._disposables[k] = Listener(kind, d)

\* C21: when the active editor changes to an HTML document other than
\* the current document of a preview whose panel is usable, the preview
\* switches to it: it becomes the current document, its text is rendered,
\* and its edits and saves are watched from then on; a change to a
\* document that is not HTML leaves the preview as it was.
C21_FollowsActiveEditor ==
    /\ lastOp.op = "activeEditor" =>
            \A p \in PreviewIds :
                Usable(lastOp.before.previews[p]) =>
                    IF isHtml(lastOp.doc)
                    THEN lastOp.doc # lastOp.before.previews[p]._currentDocument
                         => /\ previews[p]._currentDocument = lastOp.doc
                            /\ previews[p].html.doc = lastOp.doc
                            /\ previews[p].html.text = documents[lastOp.doc]
                    ELSE previews[p] = lastOp.before.previews[p]
    /\ \A p \in PreviewIds :
            (Usable(previews[p]) /\ previews[p]._currentDocument # NoDoc)
            => /\ Watches(p, "onDidSaveTextDocument", previews[p]._currentDocument)
               /\ Watches(p, "onDidChangeTextDocument", previews[p]._currentDocument)

\* The instances that exist.
Made(pv) == {q \in PreviewIds : pv[q].made}

\* C22: createOrShow reuses a usable panel: when currentPanel refers to
\* a usable panel, createOrShow(doc) switches that panel to doc, reveals
\* it and makes no new panel; a new panel is made only when there is no
\* usable one.
C22_ReusesUsablePanel ==
    lastOp.op = "createOrShow" =>
        LET b == lastOp.before
        IN  IF b.currentPanel # 0 /\ Usable(b.previews[b.currentPanel])
            THEN /\ Made(previews) = Made(b.previews)
                 /\ currentPanel = b.currentPanel
                 /\ lastOp.revealed = {currentPanel}
                 /\ previews[currentPanel]._currentDocument = lastOp.doc
            ELSE /\ Cardinality(Made(previews) \ Made(b.previews)) = 1
                 /\ currentPanel \in Made(previews) \ Made(b.previews)
                 /\ lastOp.revealed = {}

\* C22's case: createOrShow ran for another document than the one the
\* usable current panel showed.
C22_Witness ==
    /\ lastOp.op = "createOrShow"
    /\ currentPanel # 0
    /\ lastOp.before.currentPanel = currentPanel
    /\ lastOp.before.previews[currentPanel]._currentDocument \notin {NoDoc, lastOp.doc}
    /\ currentPanel \in lastOp.revealed

\* C23: between events, an instance that currentPanel refers to is not
\* marked disposed: every step that sets _isDisposed of the referenced
\* instance (a failed isPanelUsable, dispose()) clears currentPanel too.
C23_ReferenceNotDisposed ==
    /\ currentPanel # 0 =>
            (previews[currentPanel].made /\ ~previews[currentPanel]._isDisposed)
    /\ \A q \in PreviewIds :
            (previews[q]._isDisposed /\ q \notin lastOp.disposedBefore
                /\ lastOp.before.currentPanel = q)
            => currentPanel # q

\* C23's case: the referenced instance was just found unusable by a
\* watcher's callback (its panel was closed without dispose() running).
C23_Witness ==
    /\ lastOp.op \in {"save", "activeEditor", "change", "timeout"}
    /\ lastOp.before.currentPanel # 0
    /\ previews[lastOp.before.currentPanel]._isDisposed
    /\ lastOp.before.currentPanel \notin lastOp.disposedBefore
    /\ currentPanel = 0

\* The events that are calls of updateTranspilerOptions.
SetsOptions == {"updateTranspilerOptions"}

\* C24: updateTranspilerOptions(o) on a usable preview merges o into the
\* options (an option o does not name keeps its value) and renders the
\* current document again with them; whatever is rendered later is
\* rendered with the options as merged, which nothing but another
\* updateTranspilerOptions changes; getTranspilerOptions returns the
\* options, and modifying what it returned changes no option of the
\* transpiler.
C24_OptionsMergedAndCopied ==
    LET b == lastOp.before
        p == lastOp.target
    IN  /\ (lastOp.op = "updateTranspilerOptions" /\ Usable(b.previews[p]))
            => /\ previews[p].options = updateOptions(b.previews[p].options, lastOp.arg)
               /\ \A k \in DOMAIN DefaultOptions \ DOMAIN lastOp.arg :
                        previews[p].options[k] = b.previews[p].options[k]
               /\ b.previews[p]._currentDocument # NoDoc
                    => /\ Len(lastOp.wrote) = 1
                       /\ previews[p].html =
                            [doc |-> b.previews[p]._currentDocument,
                             text |-> documents[b.previews[p]._currentDocument],
                             options |-> previews[p].options]
        /\ \A k \in 1..Len(lastOp.wrote) :
                previews[lastOp.wrote[k].preview].html.options =
                    previews[lastOp.wrote[k].preview].options
        /\ lastOp.op \notin SetsOptions
            => \A q \in Made(b.previews) : previews[q].options = b.previews[q].options
        /\ lastOp.op = "getTranspilerOptions"
            => \A k \in Switches : optionsCopy[k] = previews[p].options[k]

\* C24 without the last part of it for the array of transformers: the
\* switches of the transpiler change with updateTranspilerOptions only.
C24_SwitchesKept ==
    lastOp.op \notin SetsOptions
    => \A q \in Made(lastOp.before.previews), k \in Switches :
            previews[q].options[k] = lastOp.before.previews[q].options[k]

\* Options were merged after others were, and the document rendered again.
C24_MergedTwice ==
    /\ lastOp.op = "updateTranspilerOptions"
    /\ Usable(lastOp.before.previews[lastOp.target])
    /\ lastOp.before.previews[lastOp.target].options # DefaultOptions
    /\ previews[lastOp.target].options # lastOp.before.previews[lastOp.target].options
    /\ Len(lastOp.wrote) = 1

\* Instance p was switched by the last event from one document to another.
Switched(p) ==
    /\ lastOp.before.previews[p]._currentDocument # NoDoc
    /\ previews[p]._currentDocument
            \notin {NoDoc, lastOp.before.previews[p]._currentDocument}

\* What setupDocumentWatcher(d) is to leave registered after a switch: the
\* listener of the panel's disposal and the three watchers of d.
WatchersOf(d) ==
    <<Listener("onDidDispose", NoDoc), Listener("onDidSaveTextDocument", d),
      Listener("onDidChangeTextDocument", d), Listener("onDidChangeActiveTextEditor", NoDoc)>>

\* C25: when a preview is switched to another document, the cleanup of
\* setupDocumentWatcher disposes every watcher of the previous document
\* and keeps exactly one entry, the listener of the panel's disposal; so
\* after the switch _disposables is that listener and the watchers of the
\* new document, however the preview was made and however often it was
\* switched before.
C25_CleanupKeepsDisposeListener ==
    \A p \in PreviewIds :
        Switched(p) => previews[p]._disposables = WatchersOf(previews[p]._currentDocument)

\* C25 for the previews that revive made only: their first entry is the
\* listener of the panel's disposal.
C25_RevivedKeepDisposeListener ==
    \A p \in PreviewIds :
        (Switched(p) /\ lastOp.before.previews[p]._disposables # <<>>
            /\ lastOp.before.previews[p]._disposables[1] = Listener("onDidDispose", NoDoc))
        => previews[p]._disposables = WatchersOf(previews[p]._currentDocument)

\* A revived preview was switched.
C25_RevivedSwitched ==
    \E p \in PreviewIds :
        /\ Switched(p)
        /\ lastOp.before.previews[p]._disposables[1] = Listener("onDidDispose", NoDoc)

\* dispose() has run for instance p.
Released(p) ==
    /\ previews[p]._isDisposed
    /\ previews[p]._disposables = <<>>
    /\ currentPanel # p

\* C26: when the user closes the panel of a preview, dispose() runs in
\* response, whatever switches went before: once the closing is handled
\* the instance is marked disposed, none of its watchers is registered
\* and currentPanel does not refer to it.
C26_CloseRunsDispose ==
    lastOp.op = "close" => Released(lastOp.target)

\* C26 for the previews that still have the listener of the panel's
\* disposal registered when the panel is closed.
C26_ListenerRunsDispose ==
    (/\ lastOp.op = "close"
     /\ \E k \in 1..Len(lastOp.before.previews[lastOp.target]._disposables) :
            lastOp.before.previews[lastOp.target]._disposables[k].kind = "onDidDispose")
    => Released(lastOp.target)

\* A panel was closed whose preview had been switched and still was told.
C26_ClosedAfterSwitch ==
    /\ lastOp.op = "close"
    /\ Released(lastOp.target)
    /\ lastOp.before.previews[lastOp.target]._disposables =
            WatchersOf(lastOp.before.previews[lastOp.target]._currentDocument)

\* The entries of a sequence, as often as they are in it.
BagOf(seq) == [x \in {seq[k] : k \in 1..Len(seq)} |->
                    Cardinality({k \in 1..Len(seq) : seq[k] = x})]

\* C27: dispose() releases everything the instance held: afterwards
\* _isDisposed is true, no timeout of the instance is pending,
\* _disposables is empty and dispose() was called on every entry it had
\* (also when the dispose() of one of them throws), _currentDocument is
\* undefined and currentPanel does not refer to the instance; a
\* currentPanel that referred to another instance is as it was.
C27_DisposeReleasesAll ==
    lastOp.op = "dispose" =>
        LET p == lastOp.target
            b == lastOp.before
        IN  /\ previews[p]._isDisposed
            /\ Pending(p) = {}
            /\ previews[p]._updateTimeout = 0
            /\ previews[p]._disposables = <<>>
            /\ BagOf(lastOp.called) = BagOf(b.previews[p]._disposables)
            /\ previews[p]._currentDocument = NoDoc
            /\ currentPanel # p
            /\ b.currentPanel # p => currentPanel = b.currentPanel
            /\ \A q \in PreviewIds \ {p} : previews[q] = b.previews[q]

\* C27's case: dispose() ran for an instance that had a timeout pending
\* and a watcher whose dispose() throws, another instance being current.
C27_Witness ==
    /\ lastOp.op = "dispose"
    /\ lastOp.arg # {}
    /\ \E k \in 1..Len(lastOp.before.previews[lastOp.target]._disposables) :
            lastOp.before.previews[lastOp.target]._disposables[k].kind \in lastOp.arg
    /\ \E t \in lastOp.before.timers : t.owner = lastOp.target
    /\ lastOp.before.currentPanel \notin {0, lastOp.target}
    /\ currentPanel = lastOp.before.currentPanel

\* Instance p still holds something: a registered watcher, a pending
\* timeout or a panel that is not disposed.
Holds(p) ==
    /\ previews[p].made
    /\ \/ previews[p]._disposables # <<>>
       \/ Pending(p) # {}
       \/ previews[p].panel = "live"

\* C28: no preview is orphaned: between events, every instance that
\* still has watchers registered, a timeout pending or a live panel is the
\* instance currentPanel refers to.
C28_NoOrphan ==
    \A p \in PreviewIds : Holds(p) => currentPanel = p

\* The ids in a list of cells are pairwise distinct.
DistinctIds(ids) == \A i, j \in 1..Len(ids) : i # j => ids[i] # ids[j]

\* The metadata ids the cells of the open notebook carry, in order.
CarriedIds ==
    LET carries(c) == ~IsNullish(c.metadata.id)
        carrying == SelectSeq(notebookData.cells, carries)
    IN  [k \in 1..Len(carrying) |-> carrying[k].metadata.id]

\* C29: the cells serializeNotebook writes have pairwise distinct ids,
\* whichever cells of the notebook carry a metadata id (each its own) and
\* whichever do not.
C29_DistinctCellIds ==
    (lastCall.op = "serializeNotebook" /\ DistinctIds(CarriedIds))
    => DistinctIds([k \in 1..Len(saved) |-> saved[k].id])

\* C29 for the notebooks none of whose cells carries an id, and for those
\* all of whose cells carry one that is not 0.
C29_DistinctWhenUniform ==
    (/\ lastCall.op = "serializeNotebook"
     /\ DistinctIds(CarriedIds)
     /\ \/ CarriedIds = <<>>
        \/ \A k \in 1..Len(notebookData.cells) :
                Truthy(notebookData.cells[k].metadata.id))
    => DistinctIds([k \in 1..Len(saved) |-> saved[k].id])

\* C30: the feedback of the 'Log to Console' button is temporary: after
\* any clicks, however close to each other, once every timeout of the
\* feedback has run the label is the text render() gave the button again,
\* and not 'Logged!'.
C30_FeedbackTemporary ==
    feedback = <<>> => consoleButton = "Log to Console"
====
